---- MODULE Spec2Model ----
(***************************************************************************)
(* Client-side rust backend of the Wayland protocol                        *)
(* (wayland-backend/src/rs/client/mod.rs) and the connection wrapper of    *)
(* wayland-client (wayland-client/src/cx.rs): the Handle (object map,      *)
(* error latch, serial counter, pending placeholder, outbound socket),     *)
(* the dispatch loop of Backend::dispatch_events, and the read barrier of  *)
(* ReadEventsGuard.                                                        *)
(***************************************************************************)
EXTENDS Integers, Sequences, FiniteSets, TLC

(***************************************************************************)
(* Bounds of the model.                                                    *)
(***************************************************************************)
\* highest client-range protocol id the model allocates
MaxClientId == 3
\* number of server-range protocol ids the server may announce
NumServerIds == 1
\* the u32 serial counter of the Handle wraps at 2^32; the model wraps it
\* at this modulus so that the wrap is reached
SerialModulus == 3
\* highest object version a placeholder specification names
MaxVersion == 2
\* messages a client that batches its requests keeps in the outbound buffer
\* of the socket before a flush
MaxOut == 2
\* messages one call of dispatch_events parses
MaxBatch == 2
\* reader threads holding ReadEventsGuards
NumThreads == 3
\* rounds of the read barrier (Backend::read_serial is a usize counter)
MaxRounds == 2

(***************************************************************************)
(* Protocol ids.  map.rs (imported at mod.rs:24) splits the ids at         *)
(* SERVER_ID_LIMIT = 0xFF000000; only the order of an id relative to the   *)
(* limit is ever used, so the model places the limit right above the       *)
(* client ids it allocates and ends the id space after NumServerIds more.  *)
(***************************************************************************)
SERVER_ID_LIMIT == MaxClientId + 1

\* the largest u32: the last id of the server range
U32_MAX == SERVER_ID_LIMIT + NumServerIds - 1

\* bitwise negation of a u32 (the `!` of rust on an unsigned integer)
BitNot(x) == U32_MAX - x

ClientIds == 1..MaxClientId
ServerIds == SERVER_ID_LIMIT..U32_MAX
AllIds == ClientIds \cup ServerIds
Serials == 0..(SerialModulus - 1)

(***************************************************************************)
(* The interface registry (crate::protocol, crate::core_interfaces): an    *)
(* external collaborator.  wl_display, wl_callback and wl_registry have    *)
(* the shape of the core protocol; test_global stands for any extension    *)
(* interface and carries one message of each kind the backend treats       *)
(* differently.                                                            *)
(***************************************************************************)
ANONYMOUS_INTERFACE == "<anonymous>"
WL_DISPLAY_INTERFACE == "wl_display"
NoInterface == "<none>"

Desc(name, sig, argi, child, destr) ==
    [name |-> name, signature |-> sig, arg_interfaces |-> argi,
     child_interface |-> child, is_destructor |-> destr]

InterfaceRequests(iface) ==
    CASE iface = "wl_display" ->
           << Desc("sync", <<"NewId">>, <<>>, "wl_callback", FALSE),
              Desc("get_registry", <<"NewId">>, <<>>, "wl_registry", FALSE) >>
      [] iface = "wl_registry" ->
           << Desc("bind", <<"Uint", "NewId">>, <<>>, NoInterface, FALSE) >>
      [] iface = "test_global" ->
           << Desc("destroy", <<>>, <<>>, NoInterface, TRUE),
              Desc("link", <<"ObjectNull">>, <<"test_global">>, NoInterface, FALSE),
              Desc("adopt", <<"NewId", "Object">>, <<"wl_callback">>, "test_global",
                   FALSE) >>
      [] OTHER -> << >>

InterfaceEvents(iface) ==
    CASE iface = "wl_display" ->
           << Desc("error", <<"Object", "Uint", "Str">>, <<ANONYMOUS_INTERFACE>>,
                   NoInterface, FALSE),
              Desc("delete_id", <<"Uint">>, <<>>, NoInterface, FALSE) >>
      [] iface = "wl_callback" ->
           << Desc("done", <<"Uint">>, <<>>, NoInterface, TRUE) >>
      [] iface = "test_global" ->
           << Desc("created", <<"NewId">>, <<>>, "test_global", FALSE),
              Desc("handle", <<"Fd", "ObjectNull">>, <<"test_global">>,
                   NoInterface, FALSE),
              Desc("removed", <<>>, <<>>, NoInterface, TRUE) >>
      [] OTHER -> << >>

same_interface(a, b) == a = b
same_interface_or_anonymous(a, b) == a = ANONYMOUS_INTERFACE \/ a = b

(***************************************************************************)
(* Object data capabilities.                                               *)
(***************************************************************************)
DumbObjectData == "DumbObjectData"
UninitObjectData == "UninitObjectData"
UserData == {"data1", "data2"}
NoData == "NoData"

(***************************************************************************)
(* Object ids and records.                                                 *)
(***************************************************************************)
ObjectId(id, serial, interface) ==
    [id |-> id, serial |-> serial, interface |-> interface]

Object(interface, version, cd, sd, udata, serial) ==
    [interface |-> interface, version |-> version,
     data |-> [client_destroyed |-> cd, server_destroyed |-> sd,
               user_data |-> udata, serial |-> serial]]

(***************************************************************************)
(* The object map (map.rs): a partial function from protocol id to record. *)
(***************************************************************************)
MapHas(m, id) == id \in DOMAIN m

MapInsertAt(m, id, obj) ==
    IF id \in DOMAIN m
    THEN [ok |-> FALSE, map |-> m]
    ELSE [ok |-> TRUE,
          map |-> [i \in DOMAIN m \cup {id} |-> IF i = id THEN obj ELSE m[i]]]

\* the lowest free client id; the model's ids end at MaxClientId
FreeClientIds(m) == {i \in ClientIds : i \notin DOMAIN m}

LowestFree(m) == CHOOSE i \in FreeClientIds(m) : \A j \in FreeClientIds(m) : i <= j

\* an allocation that reuses the id of a client_destroyed record without
\* waiting for the delete-id of the server
ClientInsertOver(m, obj) ==
    LET reusable == {i \in ClientIds : i \notin DOMAIN m \/ m[i].data.client_destroyed}
        id == CHOOSE i \in reusable : \A j \in reusable : i <= j
    IN  [id |-> id,
         map |-> [i \in DOMAIN m \cup {id} |-> IF i = id THEN obj ELSE m[i]]]

ClientInsertNew(m, obj) ==
    LET id == LowestFree(m)
    IN  [id |-> id,
         map |-> [i \in DOMAIN m \cup {id} |-> IF i = id THEN obj ELSE m[i]]]

MapRemove(m, id) == [i \in DOMAIN m \ {id} |-> m[i]]

(***************************************************************************)
(* The Handle (mod.rs:134-141).  socket is the outbound buffer of the      *)
(* BufferedSocket: the wire messages written and not yet flushed.          *)
(***************************************************************************)
NoError == [kind |-> "None"]
IoError(k) == [kind |-> "Io", error |-> k]
ProtocolError(code, object_id, object_interface, message) ==
    [kind |-> "Protocol", code |-> code, object_id |-> object_id,
     object_interface |-> object_interface, message |-> message]

NoPlaceholder == [interface |-> NoInterface, version |-> 0]
PlaceholderSpec(iface, version) == [interface |-> iface, version |-> version]

\* Backend::connect: id 1 is the display, with the dumb object data
ConnectHandle ==
    [socket |-> << >>,
     map |-> [i \in {1} |->
                Object(WL_DISPLAY_INTERFACE, 1, FALSE, FALSE, DumbObjectData, 0)],
     last_error |-> NoError,
     last_serial |-> 0,
     pending_placeholder |-> NoPlaceholder]

display_id == ObjectId(1, 0, WL_DISPLAY_INTERFACE)
null_id == ObjectId(0, 0, ANONYMOUS_INTERFACE)
is_null(oid) == oid.id = 0

\* a counter that stamps a record without advancing
next_serial_kept(h) == h

\* u32::wrapping_add(1) on the serial counter
WrappingAdd1(x) == (x + 1) % SerialModulus

next_serial(h) == [h EXCEPT !.last_serial = WrappingAdd1(h.last_serial)]

no_last_error(h) == h.last_error = NoError

store_and_return_error(h, err) == [h EXCEPT !.last_error = err]

store_if_not_wouldblock_and_return_error(h, e) ==
    IF e.error # "WouldBlock" THEN store_and_return_error(h, e) ELSE h

\* Result<Object<Data>, InvalidId>
InvalidId == [kind |-> "InvalidId"]
OkObject(obj) == [kind |-> "Ok", object |-> obj]

get_object(h, oid) ==
    IF ~MapHas(h.map, oid.id) THEN InvalidId
    ELSE IF h.map[oid.id].data.serial # oid.serial THEN InvalidId
    ELSE OkObject(h.map[oid.id])

\* info that does not look at client_destroyed
info_of_destroyed(h, oid) ==
    LET got == get_object(h, oid)
    IN  IF got.kind = "InvalidId" THEN InvalidId
        ELSE [kind |-> "Ok",
              info |-> [id |-> oid.id, interface |-> got.object.interface,
                        version |-> got.object.version]]

info(h, oid) ==
    LET got == get_object(h, oid)
    IN  IF got.kind = "InvalidId" THEN InvalidId
        ELSE IF got.object.data.client_destroyed THEN InvalidId
        ELSE [kind |-> "Ok",
              info |-> [id |-> oid.id, interface |-> got.object.interface,
                        version |-> got.object.version]]

get_data(h, oid) ==
    LET got == get_object(h, oid)
    IN  IF got.kind = "InvalidId" THEN InvalidId
        ELSE [kind |-> "Ok", data |-> got.object.data.user_data]

\* set_data that does not compare the serials
set_data_any_serial(h, oid, data) ==
    IF ~MapHas(h.map, oid.id) THEN [h |-> h, ret |-> InvalidId]
    ELSE [h |-> [h EXCEPT !.map[oid.id].data.user_data = data],
          ret |-> [kind |-> "Ok"]]

\* the new handle and the Result<(), InvalidId>
set_data(h, oid, data) ==
    IF ~MapHas(h.map, oid.id) THEN [h |-> h, ret |-> InvalidId]
    ELSE IF h.map[oid.id].data.serial # oid.serial THEN [h |-> h, ret |-> InvalidId]
    ELSE [h |-> [h EXCEPT !.map[oid.id].data.user_data = data],
          ret |-> [kind |-> "Ok"]]

\* the new handle and the placeholder ObjectId
placeholder_id(h, spec) ==
    [h |-> [h EXCEPT !.pending_placeholder = spec],
     ret |-> ObjectId(0, 0, IF spec = NoPlaceholder THEN ANONYMOUS_INTERFACE
                            ELSE spec.interface)]

(***************************************************************************)
(* Messages.  An argument of a Message<ObjectId> is a record with its type *)
(* and, for Object and NewId, an ObjectId; on the wire (Message<u32>) the  *)
(* two carry the bare protocol id.                                         *)
(***************************************************************************)
ArgObject(oid) == [type |-> "Object", id |-> oid]
ArgNewId(oid) == [type |-> "NewId", id |-> oid]
ArgUint(v) == [type |-> "Uint", v |-> v]
ArgStr(v) == [type |-> "Str", v |-> v]
ArgFd(fd) == [type |-> "Fd", v |-> fd]

WireObject(id) == [type |-> "Object", v |-> id]
WireNewId(id) == [type |-> "NewId", v |-> id]

Message(sender, opcode, args) == [sender_id |-> sender, opcode |-> opcode, args |-> args]

\* an argument matches an entry of a signature (protocol::check_for_signature)
ArgMatches(sigty, arg) ==
    IF sigty \in {"Object", "ObjectNull"} THEN arg.type = "Object"
    ELSE arg.type = sigty

check_for_signature(signature, args) ==
    /\ Len(signature) = Len(args)
    /\ \A i \in 1..Len(args) : ArgMatches(signature[i], args[i])

HasNewId(signature) == \E i \in 1..Len(signature) : signature[i] = "NewId"

Panic(msg) == [kind |-> "Panic", message |-> msg]
OkId(oid) == [kind |-> "Ok", id |-> oid]

(***************************************************************************)
(* Handle::send_request, mod.rs:581-750.                                   *)
(***************************************************************************)
\* a child resolution that takes the version of the spec unchecked
ChildSpecAnyVersion(h, object, desc) ==
    IF ~HasNewId(desc.signature)
    THEN [kind |-> "None", h |-> h]
    ELSE LET taken == h.pending_placeholder
             h1 == [h EXCEPT !.pending_placeholder = NoPlaceholder]
         IN  IF taken # NoPlaceholder
             THEN IF desc.child_interface # NoInterface
                        /\ ~same_interface(desc.child_interface, taken.interface)
                  THEN [kind |-> "Panic", h |-> h1,
                        message |-> "Wrong placeholder: interface"]
                  ELSE [kind |-> "Some", h |-> h1,
                        interface |-> taken.interface, version |-> taken.version]
             ELSE IF desc.child_interface # NoInterface
             THEN [kind |-> "Some", h |-> h1,
                   interface |-> desc.child_interface, version |-> object.version]
             ELSE [kind |-> "Panic", h |-> h1,
                   message |-> "Wrong placeholder: generic constructor"]

\* a child resolution that reads the pending placeholder and leaves it in
\* the slot
ChildSpecKeep(h, object, desc) ==
    IF ~HasNewId(desc.signature)
    THEN [kind |-> "None", h |-> h]
    ELSE LET taken == h.pending_placeholder
         IN  IF taken # NoPlaceholder
             THEN IF desc.child_interface # NoInterface
                        /\ ~same_interface(desc.child_interface, taken.interface)
                  THEN [kind |-> "Panic", h |-> h,
                        message |-> "Wrong placeholder: interface"]
                  ELSE IF desc.child_interface # NoInterface
                        /\ taken.version # object.version
                  THEN [kind |-> "Panic", h |-> h,
                        message |-> "Wrong placeholder: version"]
                  ELSE [kind |-> "Some", h |-> h,
                        interface |-> taken.interface, version |-> taken.version]
             ELSE IF desc.child_interface # NoInterface
             THEN [kind |-> "Some", h |-> h,
                   interface |-> desc.child_interface, version |-> object.version]
             ELSE [kind |-> "Panic", h |-> h,
                   message |-> "Wrong placeholder: generic constructor"]

\* mod.rs:606-646: the child's interface and version; takes the pending
\* placeholder.  kind is "None" (no NewId in the signature), "Some" or "Panic"
ChildSpec(h, object, desc) ==
    IF ~HasNewId(desc.signature)
    THEN [kind |-> "None", h |-> h]
    ELSE LET taken == h.pending_placeholder
             h1 == [h EXCEPT !.pending_placeholder = NoPlaceholder]
         IN  IF taken # NoPlaceholder
             THEN IF desc.child_interface # NoInterface
                        /\ ~same_interface(desc.child_interface, taken.interface)
                  THEN [kind |-> "Panic", h |-> h1,
                        message |-> "Wrong placeholder: interface"]
                  ELSE IF desc.child_interface # NoInterface
                        /\ taken.version # object.version
                  THEN [kind |-> "Panic", h |-> h1,
                        message |-> "Wrong placeholder: version"]
                  ELSE [kind |-> "Some", h |-> h1,
                        interface |-> taken.interface, version |-> taken.version]
             ELSE IF desc.child_interface # NoInterface
             THEN [kind |-> "Some", h |-> h1,
                   interface |-> desc.child_interface, version |-> object.version]
             ELSE [kind |-> "Panic", h |-> h1,
                   message |-> "Wrong placeholder: generic constructor"]

\* mod.rs:648-674: allocates the serial and the client id of the child and
\* installs the object data.  kind is "None", "Some" or "Panic"
ChildCreate(h, spec, data) ==
    IF spec.kind = "None" THEN [kind |-> "None", h |-> h]
    ELSE LET h1 == next_serial(h)
             child_serial == h1.last_serial
             ins == ClientInsertNew(h1.map,
                        Object(spec.interface, spec.version, FALSE, FALSE,
                               DumbObjectData, child_serial))
             h2 == [h1 EXCEPT !.map = ins.map]
         IN  IF data = NoData
             THEN [kind |-> "Panic", h |-> h2,
                   message |-> "Sending a request creating an object without providing an object data."]
             ELSE [kind |-> "Some",
                   h |-> [h2 EXCEPT !.map[ins.id].data.user_data = data],
                   id |-> ObjectId(ins.id, child_serial, spec.interface)]

\* mod.rs:677-690: a NewId argument that is not a placeholder panics.  The
\* test of the code is `!p.id == 0`, with `!` the bitwise negation.
NotAPlaceholder(p) == BitNot(p.id) = 0

NewIdArgsPanic(args) ==
    \E i \in 1..Len(args) : args[i].type = "NewId" /\ NotAPlaceholder(args[i].id)

\* mod.rs:704-728: the arguments in wire form, from argument i on; ai is the
\* position reached in desc.arg_interfaces.  kind is "Ok", "InvalidId" or
\* "Panic"
RECURSIVE LowerArgs(_, _, _, _, _, _)
LowerArgs(h, desc, args, child, i, ai) ==
    IF i > Len(args) THEN [kind |-> "Ok", args |-> << >>]
    ELSE LET arg == args[i]
             rest(nai) == LowerArgs(h, desc, args, child, i + 1, nai)
             cons(w, r) == IF r.kind = "Ok"
                           THEN [kind |-> "Ok", args |-> <<w>> \o r.args]
                           ELSE r
         IN  IF arg.type = "NewId"
             THEN cons(WireNewId(child.id.id), rest(ai))
             ELSE IF arg.type = "Object"
             THEN IF arg.id.id # 0
                  THEN LET got == get_object(h, arg.id)
                       IN  IF got.kind = "InvalidId" THEN InvalidId
                           ELSE IF ai > Len(desc.arg_interfaces)
                           THEN Panic("arg_interfaces exhausted")
                           ELSE IF ~same_interface_or_anonymous(
                                        desc.arg_interfaces[ai], got.object.interface)
                           THEN Panic("Request expects an argument of another interface")
                           ELSE cons(WireObject(arg.id.id), rest(ai + 1))
                  ELSE IF desc.signature[i] # "ObjectNull"
                  THEN Panic("Request expects an non-null object argument.")
                  ELSE cons(WireObject(0), rest(ai))
             ELSE cons(arg, rest(ai))

\* a write that puts the message at the head of the outbound buffer
WriteMessageFirst(h, msg, wr) ==
    IF wr = "Ok" THEN [h EXCEPT !.socket = <<msg>> \o h.socket]
    ELSE [h EXCEPT !.last_error = IoError(wr)]

\* mod.rs:730-734: socket.write_message; wr is what the socket answers:
\* "Ok" or the kind of the IO error
WriteMessage(h, msg, wr) ==
    IF wr = "Ok" THEN [h EXCEPT !.socket = Append(h.socket, msg)]
    ELSE [h EXCEPT !.last_error = IoError(wr)]

\* a destructor request that calls destroyed twice
SendDestructorTwice(h, object, id, desc) ==
    IF ~desc.is_destructor THEN [kind |-> "Ok", h |-> h, destroyed |-> << >>]
    ELSE LET h1 == [h EXCEPT !.map[id.id].data.client_destroyed = TRUE]
         IN  IF object.data.user_data = DumbObjectData
             THEN [kind |-> "Panic", h |-> h1, destroyed |-> << >>]
             ELSE [kind |-> "Ok", h |-> h1, destroyed |-> <<id, id>>]

\* mod.rs:736-744: a destructor request marks the sender and calls destroyed
\* on the object data read at the start of the call
SendDestructor(h, object, id, desc) ==
    IF ~desc.is_destructor THEN [kind |-> "Ok", h |-> h, destroyed |-> << >>]
    ELSE LET h1 == [h EXCEPT !.map[id.id].data.client_destroyed = TRUE]
         IN  IF object.data.user_data = DumbObjectData
             THEN [kind |-> "Panic", h |-> h1, destroyed |-> << >>]
             ELSE [kind |-> "Ok", h |-> h1, destroyed |-> <<id>>]

\* The outcome of send_request: the handle after the call, the value
\* returned (Ok(id), InvalidId, or a panic), the calls of destroyed it made
\* and the messages it wrote to the socket.
SendOut(h, ret, destroyed, written) ==
    [h |-> h, ret |-> ret, destroyed |-> destroyed, written |-> written]

\* mod.rs:745-749, after the destructor step des
SendReturn(child, written, des) ==
    IF des.kind = "Panic"
    THEN SendOut(des.h, Panic("unreachable"), << >>, written)
    ELSE SendOut(des.h,
                 IF child.kind = "Some" THEN OkId(child.id) ELSE OkId(null_id),
                 des.destroyed, written)

\* a send that stops at a failed write, before the destructor step
SendLoweredAbort(msg, wr, object, desc, child, low) ==
    IF low.kind = "InvalidId" THEN SendOut(child.h, InvalidId, << >>, << >>)
    ELSE IF low.kind = "Panic" THEN SendOut(child.h, low, << >>, << >>)
    ELSE IF wr # "Ok"
    THEN SendReturn(child, << >>,
             [kind |-> "Ok", destroyed |-> << >>,
              h |-> WriteMessage(child.h,
                                 Message(msg.sender_id.id, msg.opcode, low.args), wr)])
    ELSE SendReturn(child,
             <<Message(msg.sender_id.id, msg.opcode, low.args)>>,
             SendDestructor(
                 WriteMessage(child.h,
                              Message(msg.sender_id.id, msg.opcode, low.args), wr),
                 object, msg.sender_id, desc))

\* mod.rs:730-744, with the arguments lowered to low
SendLowered(msg, wr, object, desc, child, low) ==
    IF low.kind = "InvalidId" THEN SendOut(child.h, InvalidId, << >>, << >>)
    ELSE IF low.kind = "Panic" THEN SendOut(child.h, low, << >>, << >>)
    ELSE SendReturn(child,
             IF wr = "Ok" THEN <<Message(msg.sender_id.id, msg.opcode, low.args)>>
             ELSE << >>,
             SendDestructor(
                 WriteMessage(child.h,
                              Message(msg.sender_id.id, msg.opcode, low.args), wr),
                 object, msg.sender_id, desc))

\* mod.rs:677-728, with the child created
SendWithChild(msg, wr, object, desc, child) ==
    IF child.kind = "Panic" THEN SendOut(child.h, Panic(child.message), << >>, << >>)
    ELSE IF NewIdArgsPanic(msg.args)
    THEN SendOut(child.h, Panic("The newid provided is not a placeholder."), << >>, << >>)
    ELSE SendLowered(msg, wr, object, desc, child,
                     LowerArgs(child.h, desc, msg.args, child, 1, 1))

\* mod.rs:648-674, with the child's interface and version resolved to spec
SendWithSpec(msg, data, wr, object, desc, spec) ==
    IF spec.kind = "Panic" THEN SendOut(spec.h, Panic(spec.message), << >>, << >>)
    ELSE SendWithChild(msg, wr, object, desc, ChildCreate(spec.h, spec, data))

\* mod.rs:598-646, with the descriptor of the request
SendDescribed(h, msg, data, wr, object, desc) ==
    IF ~check_for_signature(desc.signature, msg.args)
    THEN SendOut(h, Panic("Unexpected signature"), << >>, << >>)
    ELSE SendWithSpec(msg, data, wr, object, desc, ChildSpec(h, object, desc))

\* mod.rs:586-596, with the sender looked up
SendChecked(h, msg, data, wr, got) ==
    IF got.kind = "InvalidId" THEN SendOut(h, InvalidId, << >>, << >>)
    ELSE IF got.object.data.client_destroyed THEN SendOut(h, InvalidId, << >>, << >>)
    ELSE IF msg.opcode + 1 > Len(InterfaceRequests(got.object.interface))
    THEN SendOut(h, Panic("Unknown opcode"), << >>, << >>)
    ELSE SendDescribed(h, msg, data, wr, got.object,
                       InterfaceRequests(got.object.interface)[msg.opcode + 1])

send_request(h, msg, data, wr) ==
    SendChecked(h, msg, data, wr, get_object(h, msg.sender_id))

\* CStr::to_string_lossy (mod.rs:832): the bytes of the message as text,
\* with the bytes that are not UTF-8 replaced by U+FFFD
ToStringLossy(bytes) == IF bytes = "bad<FF>" THEN "bad<U+FFFD>" ELSE bytes

\* a delete_id that removes the record it names whatever its flags
handle_display_event_remove(h, message) ==
    IF message.opcode = 0
    THEN LET obj == message.args[1].v
             err == ProtocolError(message.args[2].v, obj,
                        IF MapHas(h.map, obj) THEN h.map[obj].interface
                        ELSE "<unknown>",
                        ToStringLossy(message.args[3].v))
         IN  [kind |-> "Error", h |-> store_and_return_error(h, err), err |-> err]
    ELSE LET id == message.args[1].v
         IN  IF ~MapHas(h.map, id) THEN [kind |-> "Ok", h |-> h]
             ELSE [kind |-> "Ok", h |-> [h EXCEPT !.map = MapRemove(h.map, id)]]

\* a delete_id that marks the record server_destroyed and never removes it
handle_display_event_keep(h, message) ==
    IF message.opcode = 0
    THEN LET obj == message.args[1].v
             err == ProtocolError(message.args[2].v, obj,
                        IF MapHas(h.map, obj) THEN h.map[obj].interface
                        ELSE "<unknown>",
                        ToStringLossy(message.args[3].v))
         IN  [kind |-> "Error", h |-> store_and_return_error(h, err), err |-> err]
    ELSE LET id == message.args[1].v
         IN  IF ~MapHas(h.map, id) THEN [kind |-> "Ok", h |-> h]
             ELSE [kind |-> "Ok",
                   h |-> [h EXCEPT !.map[id].data.server_destroyed = TRUE]]

(***************************************************************************)
(* Handle::handle_display_event, mod.rs:817-859.  kind is "Ok" or "Error". *)
(***************************************************************************)
handle_display_event(h, message) ==
    IF message.opcode = 0
    THEN LET obj == message.args[1].v
             err == ProtocolError(message.args[2].v, obj,
                        IF MapHas(h.map, obj) THEN h.map[obj].interface
                        ELSE "<unknown>",
                        ToStringLossy(message.args[3].v))
         IN  [kind |-> "Error", h |-> store_and_return_error(h, err), err |-> err]
    ELSE LET id == message.args[1].v
         IN  IF ~MapHas(h.map, id) THEN [kind |-> "Ok", h |-> h]
             ELSE LET h1 == [h EXCEPT !.map[id].data.server_destroyed = TRUE]
                  IN  IF h1.map[id].data.client_destroyed
                      THEN [kind |-> "Ok", h |-> [h1 EXCEPT !.map = MapRemove(h1.map, id)]]
                      ELSE [kind |-> "Ok", h |-> h1]

(***************************************************************************)
(* Backend::dispatch_events, mod.rs:213-429: one turn of the loop on a     *)
(* parsed message.                                                         *)
(***************************************************************************)
\* a NewId that evicts a client_destroyed record of any range
DispatchNewIdEvictAny(h, receiver, desc, new_id) ==
    IF desc.child_interface = NoInterface
    THEN [kind |-> "Panic", h |-> h]
    ELSE LET evict == MapHas(h.map, new_id) /\ h.map[new_id].data.client_destroyed
             h1 == IF evict THEN [h EXCEPT !.map = MapRemove(h.map, new_id)] ELSE h
             h2 == next_serial(h1)
             child_obj == Object(desc.child_interface, receiver.version,
                                 receiver.data.client_destroyed, FALSE,
                                 UninitObjectData, h2.last_serial)
             child_id == ObjectId(new_id, h2.last_serial, desc.child_interface)
             ins == MapInsertAt(h2.map, new_id, child_obj)
         IN  IF ~ins.ok
             THEN LET err == ProtocolError(0, 0, "",
                                 <<"Protocol error: server tried to create an object with invalid id",
                                   desc.child_interface, new_id>>)
                  IN  [kind |-> "Error", h |-> store_and_return_error(h2, err), err |-> err]
             ELSE [kind |-> "Ok", h |-> [h2 EXCEPT !.map = ins.map], id |-> child_id]

\* a NewId whose child is inserted live whatever the flag of its parent
DispatchNewIdLive(h, receiver, desc, new_id) ==
    IF desc.child_interface = NoInterface
    THEN [kind |-> "Panic", h |-> h]
    ELSE LET evict == /\ new_id >= SERVER_ID_LIMIT
                      /\ MapHas(h.map, new_id)
                      /\ h.map[new_id].data.client_destroyed
             h1 == IF evict THEN [h EXCEPT !.map = MapRemove(h.map, new_id)] ELSE h
             h2 == next_serial(h1)
             child_obj == Object(desc.child_interface, receiver.version,
                                 FALSE, FALSE, UninitObjectData, h2.last_serial)
             child_id == ObjectId(new_id, h2.last_serial, desc.child_interface)
             ins == MapInsertAt(h2.map, new_id, child_obj)
         IN  IF ~ins.ok
             THEN LET err == ProtocolError(0, 0, "",
                                 <<"Protocol error: server tried to create an object with invalid id",
                                   desc.child_interface, new_id>>)
                  IN  [kind |-> "Error", h |-> store_and_return_error(h2, err), err |-> err]
             ELSE [kind |-> "Ok", h |-> [h2 EXCEPT !.map = ins.map], id |-> child_id]

\* mod.rs:308-354: a NewId argument creates the child record.  kind is
\* "Ok", "Error" or "Panic"
DispatchNewId(h, receiver, desc, new_id) ==
    IF desc.child_interface = NoInterface
    THEN [kind |-> "Panic", h |-> h]
    ELSE LET evict == /\ new_id >= SERVER_ID_LIMIT
                      /\ MapHas(h.map, new_id)
                      /\ h.map[new_id].data.client_destroyed
             h1 == IF evict THEN [h EXCEPT !.map = MapRemove(h.map, new_id)] ELSE h
             h2 == next_serial(h1)
             child_obj == Object(desc.child_interface, receiver.version,
                                 receiver.data.client_destroyed, FALSE,
                                 UninitObjectData, h2.last_serial)
             child_id == ObjectId(new_id, h2.last_serial, desc.child_interface)
             ins == MapInsertAt(h2.map, new_id, child_obj)
         IN  IF ~ins.ok
             THEN LET err == ProtocolError(0, 0, "",
                                 <<"Protocol error: server tried to create an object with invalid id",
                                   desc.child_interface, new_id>>)
                  IN  [kind |-> "Error", h |-> store_and_return_error(h2, err), err |-> err]
             ELSE [kind |-> "Ok", h |-> [h2 EXCEPT !.map = ins.map], id |-> child_id]

\* a lookup that passes an id the map does not hold on to the callback
DispatchObjectUnchecked(h, desc, o, ai) ==
    IF o = 0 \/ ~MapHas(h.map, o)
    THEN [kind |-> "Ok", id |-> ObjectId(o, 0, ANONYMOUS_INTERFACE), ai |-> ai]
    ELSE LET obj == h.map[o]
         IN  IF ai <= Len(desc.arg_interfaces)
                  /\ ~same_interface_or_anonymous(desc.arg_interfaces[ai], obj.interface)
             THEN LET err == ProtocolError(0, 0, "",
                                 <<"Protocol error: server sent object for another interface",
                                   o, desc.arg_interfaces[ai], obj.interface>>)
                  IN  [kind |-> "Error", h |-> store_and_return_error(h, err), err |-> err]
             ELSE [kind |-> "Ok", id |-> ObjectId(o, obj.data.serial, obj.interface),
                   ai |-> IF ai <= Len(desc.arg_interfaces) THEN ai + 1 ELSE ai]

\* mod.rs:274-307: an Object argument is looked up in the map.  kind is "Ok"
\* or "Error"; ai is the position reached in desc.arg_interfaces
DispatchObject(h, desc, o, ai) ==
    IF o = 0 THEN [kind |-> "Ok", id |-> ObjectId(0, 0, ANONYMOUS_INTERFACE), ai |-> ai]
    ELSE IF ~MapHas(h.map, o)
    THEN LET err == ProtocolError(0, 0, "", <<"Unknown object ", o, ".">>)
         IN  [kind |-> "Error", h |-> store_and_return_error(h, err), err |-> err]
    ELSE LET obj == h.map[o]
         IN  IF ai <= Len(desc.arg_interfaces)
                  /\ ~same_interface_or_anonymous(desc.arg_interfaces[ai], obj.interface)
             THEN LET err == ProtocolError(0, 0, "",
                                 <<"Protocol error: server sent object for another interface",
                                   o, desc.arg_interfaces[ai], obj.interface>>)
                  IN  [kind |-> "Error", h |-> store_and_return_error(h, err), err |-> err]
             ELSE [kind |-> "Ok", id |-> ObjectId(o, obj.data.serial, obj.interface),
                   ai |-> IF ai <= Len(desc.arg_interfaces) THEN ai + 1 ELSE ai]

\* an argument put in front of the arguments that follow it
ConsArg(a, r) == IF r.kind = "Ok" THEN [r EXCEPT !.args = <<a>> \o r.args] ELSE r

\* mod.rs:263-356: the arguments from argument i on; created is the id of
\* the child created so far (null_id when none)
RECURSIVE DispatchArgs(_, _, _, _, _, _, _)
\* with the Object argument i looked up
ArgsAfterObject(h, receiver, desc, wargs, i, created, o) ==
    IF o.kind = "Error" THEN o
    ELSE ConsArg(ArgObject(o.id),
                 DispatchArgs(h, receiver, desc, wargs, i + 1, o.ai, created))

\* with the child of the NewId argument i created
ArgsAfterNewId(receiver, desc, wargs, i, ai, n) ==
    IF n.kind # "Ok" THEN n
    ELSE ConsArg(ArgNewId(n.id),
                 DispatchArgs(n.h, receiver, desc, wargs, i + 1, ai, n.id))

DispatchArgs(h, receiver, desc, wargs, i, ai, created) ==
    IF i > Len(wargs)
    THEN [kind |-> "Ok", h |-> h, created |-> created, args |-> << >>]
    ELSE IF wargs[i].type = "Object"
    THEN ArgsAfterObject(h, receiver, desc, wargs, i, created,
                         DispatchObject(h, desc, wargs[i].v, ai))
    ELSE IF wargs[i].type = "NewId"
    THEN ArgsAfterNewId(receiver, desc, wargs, i, ai,
                        DispatchNewId(h, receiver, desc, wargs[i].v))
    ELSE ConsArg(wargs[i],
                 DispatchArgs(h, receiver, desc, wargs, i + 1, ai, created))

\* a swallow that closes nothing
FdsOfNone(args) == << >>

\* the file descriptors among the arguments, in order
RECURSIVE FdsOf(_)
FdsOf(args) ==
    IF args = << >> THEN << >>
    ELSE (IF Head(args).type = "Fd" THEN <<Head(args).v>> ELSE << >>) \o FdsOf(Tail(args))

(***************************************************************************)
(* The event callback of a user's object data (ObjectData::event,          *)
(* mod.rs:43-47): it is given the Handle, may call it, and returns the     *)
(* object data of a created child or None.  cb.calls are the calls it      *)
(* makes, cb.ret what it returns.                                          *)
(***************************************************************************)
CallSend(msg, data, wr) == [op |-> "send_request", msg |-> msg, data |-> data, wr |-> wr]
CallSetData(id, data) == [op |-> "set_data", id |-> id, data |-> data]

RECURSIVE RunCalls(_, _)
\* the outcome r of a call of send_request, then the calls that follow
RunJoin(r, rest) ==
    [rest EXCEPT !.destroyed = r.destroyed \o rest.destroyed,
                 !.written = r.written \o rest.written]

RunSend(r, calls) ==
    IF r.ret.kind = "Panic"
    THEN [kind |-> "Panic", h |-> r.h, destroyed |-> r.destroyed, written |-> r.written]
    ELSE RunJoin(r, RunCalls(r.h, calls))

RunCalls(h, calls) ==
    IF calls = << >>
    THEN [kind |-> "Ok", h |-> h, destroyed |-> << >>, written |-> << >>]
    ELSE IF Head(calls).op = "send_request"
    THEN RunSend(send_request(h, Head(calls).msg, Head(calls).data, Head(calls).wr),
                 Tail(calls))
    ELSE RunCalls(set_data(h, Head(calls).id, Head(calls).data).h, Tail(calls))

\* The outcome of one turn of the loop: the handle, how the loop goes on
\* ("Dispatched": the message was counted, "Continue": the loop goes on
\* without counting it, "Error": the call returns err, "Panic"), and what
\* the turn did: the callbacks invoked, the calls of destroyed, the file
\* descriptors closed, the requests written.
TurnOut(h, flow, err, events, destroyed, closed, written) ==
    [h |-> h, flow |-> flow, err |-> err, events |-> events,
     destroyed |-> destroyed, closed |-> closed, written |-> written]

\* a reconciliation that leaves the child with the capability it was
\* inserted with
AfterCallbackForget(h, receiver, desc, id, created, cbret, ran) ==
    LET h1 == IF desc.is_destructor
              THEN [h EXCEPT !.map[id.id].data.server_destroyed = TRUE,
                             !.map[id.id].data.client_destroyed = TRUE]
              ELSE h
        destroyed == ran.destroyed \o (IF desc.is_destructor THEN <<id>> ELSE << >>)
    IN  IF desc.is_destructor /\ ~MapHas(h.map, id.id)
        THEN TurnOut(h, "Panic", NoError, <<id>>, ran.destroyed, << >>, ran.written)
        ELSE IF created # null_id /\ cbret # NoData
        THEN TurnOut(h1, "Dispatched", NoError, <<id>>, destroyed, << >>, ran.written)
        ELSE IF created = null_id /\ cbret = NoData
        THEN TurnOut(h1, "Dispatched", NoError, <<id>>, destroyed, << >>, ran.written)
        ELSE TurnOut(h1, "Panic", NoError, <<id>>, destroyed, << >>, ran.written)

\* mod.rs:391-405 and 407-424: after the callback
AfterCallback(h, receiver, desc, id, created, cbret, ran) ==
    LET h1 == IF desc.is_destructor
              THEN [h EXCEPT !.map[id.id].data.server_destroyed = TRUE,
                             !.map[id.id].data.client_destroyed = TRUE]
              ELSE h
        destroyed == ran.destroyed \o (IF desc.is_destructor THEN <<id>> ELSE << >>)
    IN  IF desc.is_destructor /\ ~MapHas(h.map, id.id)
        THEN TurnOut(h, "Panic", NoError, <<id>>, ran.destroyed, << >>, ran.written)
        ELSE IF created # null_id /\ cbret # NoData
        THEN IF ~MapHas(h1.map, created.id)
             THEN TurnOut(h1, "Panic", NoError, <<id>>, destroyed, << >>, ran.written)
             ELSE TurnOut([h1 EXCEPT !.map[created.id].data.user_data = cbret],
                          "Dispatched", NoError, <<id>>, destroyed, << >>, ran.written)
        ELSE IF created = null_id /\ cbret = NoData
        THEN TurnOut(h1, "Dispatched", NoError, <<id>>, destroyed, << >>, ran.written)
        ELSE TurnOut(h1, "Panic", NoError, <<id>>, destroyed, << >>, ran.written)

\* mod.rs:378-427, with the callback run
TurnAfterCallback(receiver, desc, id, a, cb, ran) ==
    IF ran.kind = "Panic"
    THEN TurnOut(ran.h, "Panic", NoError, <<id>>, ran.destroyed, << >>, ran.written)
    ELSE AfterCallback(ran.h, receiver, desc, id, a.created, cb.ret, ran)

\* mod.rs:358-389, with the arguments processed
TurnAfterArgs(receiver, desc, id, cb, a) ==
    IF a.kind = "Panic" THEN TurnOut(a.h, "Panic", NoError, << >>, << >>, << >>, << >>)
    ELSE IF a.kind = "Error"
    THEN TurnOut(a.h, "Error", a.err, << >>, << >>, << >>, << >>)
    ELSE IF receiver.data.client_destroyed
    THEN TurnOut(a.h, "Continue", NoError, << >>, << >>, FdsOf(a.args), << >>)
    ELSE IF receiver.data.user_data \notin UserData
    THEN TurnOut(a.h, "Panic", NoError, <<id>>, << >>, << >>, << >>)
    ELSE TurnAfterCallback(receiver, desc, id, a, cb, RunCalls(a.h, cb.calls))

\* mod.rs:255-259, with the display event handled
TurnAfterDisplay(d) ==
    IF d.kind = "Error"
    THEN TurnOut(d.h, "Error", d.err, << >>, << >>, << >>, << >>)
    ELSE TurnOut(d.h, "Continue", NoError, << >>, << >>, << >>, << >>)

\* mod.rs:252-253, with the receiver and the descriptor of the event
TurnOn(h, message, cb, receiver, desc) ==
    TurnAfterArgs(receiver, desc,
                  ObjectId(message.sender_id, receiver.data.serial, receiver.interface),
                  cb,
                  DispatchArgs(h, receiver, desc, message.args, 1, 1, null_id))

DispatchMessage(h, message, cb) ==
    IF message.sender_id = 1
    THEN TurnAfterDisplay(handle_display_event(h, message))
    ELSE TurnOn(h, message, cb, h.map[message.sender_id],
                InterfaceEvents(h.map[message.sender_id].interface)[message.opcode + 1])

(***************************************************************************)
(* State.                                                                  *)
(***************************************************************************)
Threads == 1..NumThreads

VARIABLES
    handle,          \* Backend::handle, the Handle
    prepared_reads,  \* Backend::prepared_reads
    read_serial,     \* Backend::read_serial
    disp,            \* the call of dispatch_events in progress, if any
    threads,         \* per reader thread: its ReadEventsGuard and its read()
    retired,         \* per protocol id, the ObjectId of the record last
                     \* removed from the map: the stale ids callers hold
    last,            \* what the last operation was, returned and did
    panicked,        \* a fatal programming error ended the process
    scenario         \* what the client and the server do in this run

vars == <<handle, prepared_reads, read_serial, disp, threads, retired, last,
          panicked, scenario>>

\* disp.owner: 0 when no call of dispatch_events is running, DirectCall for
\* a call of Backend::dispatch_events by its owner, t for the call made by
\* the read() of thread t; dispatched is the counter of the loop, parsed the
\* number of messages the call has read, callbacks the number of event
\* callbacks it has invoked, stream the messages read_one_message has given
\* the call, in the order of the wire, invoked the objects whose event
\* callback the call has invoked, in the order of the invocations
DirectCall == 0 - 1

NoDispatch == [owner |-> 0, dispatched |-> 0, parsed |-> 0, callbacks |-> 0,
               stream |-> << >>, invoked |-> << >>]

\* a reader thread: where it is (idle, prepared: it holds a guard, waiting:
\* inside read() on the condition variable, draining: inside read() in
\* dispatch_events), the read_serial it waits on, and of its last read():
\* the round it entered in, whether it was the one to call dispatch_events,
\* what it returned and how many callbacks its dispatch_events invoked
\* and, of a thread inside a call of the Connection (cx.rs): the call, the
\* wl_callback of its roundtrip and the events its roundtrip has counted;
\* out is what its last call of the Connection returned
IdleThread == [pc |-> "idle", serial |-> 0, round |-> 0, drained |-> FALSE,
               ret |-> [kind |-> "None"], callbacks |-> 0,
               call |-> "none", sync |-> null_id,
               dispatched |-> 0, out |-> [kind |-> "None"]]

NoLast == [op |-> "connect"]

(***************************************************************************)
(* Scenarios.  A run checks the backend against one family of clients and  *)
(* servers: the requests the client sends, the operations it calls, the    *)
(* events the server sends and the failures of the socket.                 *)
(***************************************************************************)
RecycleScenario ==
    {"sync", "flush", "done", "delete_id", "info", "get_data", "set_data"}

GlobalScenario ==
    {"get_registry", "bind", "placeholder_id", "destroy", "link", "flush",
     "delete_id", "info", "get_data", "no_data", "wrap", "any_placeholder"}

EventScenario ==
    {"get_registry", "bind", "placeholder_id", "destroy", "flush", "created",
     "handle", "removed", "callback_returns"}

NestedScenario ==
    {"get_registry", "bind", "placeholder_id", "destroy", "flush", "removed",
     "nested_calls", "batch"}

LatchScenario ==
    {"sync", "placeholder_id", "set_data", "flush", "done", "error",
     "write_errors", "read_errors"}

WriteFailScenario ==
    {"get_registry", "bind", "placeholder_id", "destroy", "write_errors"}

BadNewIdScenario == {"sync", "get_registry", "flush", "bad_newid"}

ResolveScenario == {"sync", "placeholder_id", "any_placeholder", "no_data", "flush"}

WrapScenario ==
    {"sync", "flush", "done", "delete_id", "info", "wrap", "server_follows_protocol"}

AdoptScenario ==
    {"get_registry", "bind", "placeholder_id", "destroy", "adopt", "flush",
     "created", "delete_id", "server_follows_protocol"}

Scenarios ==
    {RecycleScenario, GlobalScenario, EventScenario, NestedScenario, LatchScenario,
     WriteFailScenario, BadNewIdScenario, ResolveScenario, WrapScenario,
     AdoptScenario}

BarrierScenario == {"sync", "flush", "done", "delete_id", "read_errors"}

Init ==
    /\ handle = ConnectHandle
    /\ prepared_reads = 0
    /\ read_serial = 0
    /\ disp = NoDispatch
    /\ threads = [t \in Threads |-> IdleThread]
    /\ retired = [k \in AllIds |-> null_id]
    /\ last = NoLast
    /\ panicked = FALSE
    /\ scenario \in Scenarios

\* the Mutex<Backend> is free: no call of dispatch_events holds it
LockFree == ~panicked /\ disp.owner = 0

\* the ids removed from the map between h and h2
Retire(h, h2) ==
    [k \in AllIds |->
        IF MapHas(h.map, k)
             /\ (~MapHas(h2.map, k) \/ h2.map[k].data.serial # h.map[k].data.serial)
        THEN ObjectId(k, h.map[k].data.serial, h.map[k].interface)
        ELSE retired[k]]

(***************************************************************************)
(* What callers pass.  ObjectIds are made by the backend alone: a caller   *)
(* holds the null id, the ids of the records of the map, and the ids of    *)
(* records that have left the map.                                         *)
(***************************************************************************)
CurrentIds(h) ==
    {ObjectId(k, h.map[k].data.serial, h.map[k].interface) : k \in DOMAIN h.map}

HeldIds(h) == CurrentIds(h) \cup {retired[k] : k \in AllIds} \cup {null_id}

\* the ids a caller passes for a NewId argument: a placeholder, or by
\* mistake the id of an object
NewIdInputs ==
    IF "bad_newid" \in scenario
    THEN {null_id, ObjectId(U32_MAX, 0, ANONYMOUS_INTERFACE),
          ObjectId(2, 0, ANONYMOUS_INTERFACE)}
    ELSE {null_id}

ArgInputs(h, sigty) ==
    CASE sigty = "NewId" -> {ArgNewId(p) : p \in NewIdInputs}
      [] sigty \in {"Object", "ObjectNull"} -> {ArgObject(o) : o \in HeldIds(h)}
      [] sigty = "Uint" -> {ArgUint(0)}
      [] sigty = "Str" -> {ArgStr("s")}
      [] sigty = "Fd" -> {ArgFd(0)}

\* all argument lists of a signature
RECURSIVE ArgLists(_, _)
ArgLists(h, signature) ==
    IF signature = << >> THEN {<< >>}
    ELSE {<<a>> \o r : a \in ArgInputs(h, Head(signature)),
                       r \in ArgLists(h, Tail(signature))}

\* a typed proxy builds the requests of the interface its ObjectId names
RequestsOf(h, sender) ==
    LET reqs == InterfaceRequests(sender.interface)
    IN  UNION {{Message(sender, op - 1, args) : args \in ArgLists(h, reqs[op].signature)}
               : op \in {o \in 1..Len(reqs) : reqs[o].name \in scenario}}

DataInputs(msg) ==
    IF \E i \in 1..Len(msg.args) : msg.args[i].type = "NewId"
    THEN (IF "no_data" \in scenario THEN {NoData, "data1"} ELSE {"data1"})
    ELSE {NoData}

WriteOutcomes ==
    IF "write_errors" \in scenario THEN {"Ok", "WouldBlock", "BrokenPipe"} ELSE {"Ok"}

PlaceholderInputs ==
    IF "any_placeholder" \in scenario
    THEN {NoPlaceholder} \cup
         {PlaceholderSpec(i, v) : i \in {"wl_callback", "test_global"}, v \in 1..MaxVersion}
    ELSE {PlaceholderSpec("test_global", 1)}

\* a client flushes after every request, or in the scenarios with "batch"
\* keeps up to MaxOut messages in the outbound buffer
CanSend(h) == Len(h.socket) < (IF "batch" \in scenario THEN MaxOut ELSE 1)

\* last_serial wraps around in the scenarios with "wrap" alone
CanCreate(h, args) ==
    (\E i \in 1..Len(args) : args[i].type = "NewId")
        => /\ FreeClientIds(h.map) # {}
           /\ "wrap" \in scenario \/ h.last_serial < SerialModulus - 1

(***************************************************************************)
(* Operations on the Handle, called with the lock held.                    *)
(***************************************************************************)
SendRequest(msg, data, wr) ==
    /\ LockFree
    /\ CanSend(handle)
    /\ CanCreate(handle, msg.args)
    /\ LET r == send_request(handle, msg, data, wr)
       IN  /\ handle' = r.h
           /\ last' = [op |-> "send_request", msg |-> msg, data |-> data, wr |-> wr,
                       ret |-> r.ret, destroyed |-> r.destroyed, written |-> r.written]
           /\ panicked' = (r.ret.kind = "Panic")
           /\ retired' = Retire(handle, r.h)
    /\ UNCHANGED <<prepared_reads, read_serial, disp, threads, scenario>>

PlaceholderId(spec) ==
    /\ LockFree
    /\ "placeholder_id" \in scenario
    /\ LET r == placeholder_id(handle, spec)
       IN  /\ handle' = r.h
           /\ last' = [op |-> "placeholder_id", spec |-> spec, ret |-> r.ret]
    /\ UNCHANGED <<prepared_reads, read_serial, disp, threads, retired, panicked, scenario>>

SetData(id, data) ==
    /\ LockFree
    /\ "set_data" \in scenario
    /\ LET r == set_data(handle, id, data)
       IN  /\ handle' = r.h
           /\ last' = [op |-> "set_data", id |-> id, data |-> data, ret |-> r.ret]
    /\ UNCHANGED <<prepared_reads, read_serial, disp, threads, retired, panicked, scenario>>

Info(id) ==
    /\ LockFree
    /\ "info" \in scenario
    /\ last' = [op |-> "info", id |-> id, ret |-> info(handle, id)]
    /\ UNCHANGED <<handle, prepared_reads, read_serial, disp, threads, retired,
                   panicked, scenario>>

GetData(id) ==
    /\ LockFree
    /\ "get_data" \in scenario
    /\ last' = [op |-> "get_data", id |-> id, ret |-> get_data(handle, id)]
    /\ UNCHANGED <<handle, prepared_reads, read_serial, disp, threads, retired,
                   panicked, scenario>>

Ok(n) == [kind |-> "Ok", n |-> n]
Err(e) == [kind |-> "Err", err |-> e]

\* flush without the look at the latch
flush_unlatched(h, fl) ==
    IF fl # "Ok"
    THEN [h |-> store_if_not_wouldblock_and_return_error(h, IoError(fl)),
          ret |-> Err(IoError(fl))]
    ELSE [h |-> [h EXCEPT !.socket = << >>], ret |-> [kind |-> "Ok"]]

\* Backend::flush, mod.rs:198-204; fl is what socket.flush() answers
flush(h, fl) ==
    IF ~no_last_error(h) THEN [h |-> h, ret |-> Err(h.last_error)]
    ELSE IF fl # "Ok"
    THEN [h |-> store_if_not_wouldblock_and_return_error(h, IoError(fl)),
          ret |-> Err(IoError(fl))]
    ELSE [h |-> [h EXCEPT !.socket = << >>], ret |-> [kind |-> "Ok"]]

Flush(fl) ==
    /\ LockFree
    /\ "flush" \in scenario
    /\ LET r == flush(handle, fl)
       IN  /\ handle' = r.h
           /\ last' = [op |-> "flush", fl |-> fl, ret |-> r.ret]
    /\ UNCHANGED <<prepared_reads, read_serial, disp, threads, retired, panicked, scenario>>

(***************************************************************************)
(* What the server sends.  read_one_message parses a message only when its *)
(* sender is in the map and its opcode is an event of the sender's         *)
(* interface (mod.rs:219-223).                                             *)
(***************************************************************************)
WireArgInputs(name, sigty) ==
    CASE sigty = "NewId" -> {WireNewId(k) : k \in AllIds}
      [] sigty \in {"Object", "ObjectNull"} -> {WireObject(k) : k \in AllIds \cup {0}}
      [] sigty = "Uint" -> IF name = "delete_id" THEN {ArgUint(k) : k \in AllIds}
                           ELSE IF name = "error" THEN {ArgUint(7)}
                           ELSE {ArgUint(0)}
      [] sigty = "Str" -> {ArgStr("bad"), ArgStr("bad<FF>")}
      [] sigty = "Fd" -> {ArgFd(9)}

RECURSIVE WireArgLists(_, _)
WireArgLists(name, signature) ==
    IF signature = << >> THEN {<< >>}
    ELSE {<<a>> \o r : a \in WireArgInputs(name, Head(signature)),
                       r \in WireArgLists(name, Tail(signature))}

\* a server that follows the protocol sends delete_id only for an id the
\* client has destroyed, and announces objects at ids of its own range
FollowsProtocol(h, message) ==
    /\ (message.sender_id = 1 /\ message.opcode = 1)
         => /\ MapHas(h.map, message.args[1].v)
            /\ h.map[message.args[1].v].data.client_destroyed
    /\ \A i \in 1..Len(message.args) :
         message.args[i].type = "NewId" => message.args[i].v \in ServerIds

ParseableMessages(h) ==
    LET all == UNION {LET evs == InterfaceEvents(h.map[s].interface)
                      IN  UNION {{Message(s, op - 1, args)
                                  : args \in WireArgLists(evs[op].name, evs[op].signature)}
                                 : op \in {o \in 1..Len(evs) : evs[o].name \in scenario}}
                      : s \in DOMAIN h.map}
    IN  IF "server_follows_protocol" \in scenario
        THEN {m \in all : FollowsProtocol(h, m)}
        ELSE all

\* what the event callback of the receiver does: the calls it makes on the
\* Handle and the object data it returns
NoCallback == [calls |-> << >>, ret |-> NoData]

CallbackInputs(h, message) ==
    LET receiver == h.map[message.sender_id]
        desc == InterfaceEvents(receiver.interface)[message.opcode + 1]
        selfid == ObjectId(message.sender_id, receiver.data.serial, receiver.interface)
        nested ==
            IF "nested_calls" \in scenario /\ CanSend(h)
            THEN {<< >>, <<CallSetData(selfid, "data2")>>}
                 \cup {<<CallSend(m, NoData, "Ok")>>
                       : m \in {r \in RequestsOf(h, selfid) : r.args = << >>}}
            ELSE {<< >>}
        rets == IF "callback_returns" \in scenario THEN {NoData, "data1"}
                ELSE IF HasNewId(desc.signature) THEN {"data1"} ELSE {NoData}
    IN  IF message.sender_id = 1 \/ receiver.data.client_destroyed
           \/ receiver.data.user_data \notin UserData
        THEN {NoCallback}
        ELSE {[calls |-> c, ret |-> r] : c \in nested, r \in rets}

(***************************************************************************)
(* Backend::dispatch_events, mod.rs:213-429, step by step with the lock    *)
(* held: the entry, one turn of the loop per message, and the return.      *)
(***************************************************************************)
\* the records the step takes out of the map (map.remove at mod.rs:321 and
\* mod.rs:849), each with its protocol id, as they stood before the step
RemovedRecords(h, h2) ==
    {[id |-> k, record |-> h.map[k]] :
        k \in {j \in DOMAIN h.map :
                 ~MapHas(h2.map, j) \/ h2.map[j].data.serial # h.map[j].data.serial}}

\* parsed: the number of messages the call had read before the step
DispatchLog(owner, message, cb, out, returned, ret) ==
    [op |-> "dispatch_events", owner |-> owner, message |-> message, cb |-> cb,
     parsed |-> disp.parsed, removed |-> RemovedRecords(handle, out.h),
     flow |-> out.flow, events |-> out.events, destroyed |-> out.destroyed,
     closed |-> out.closed, written |-> out.written,
     returned |-> returned, ret |-> ret]

NoMessage == Message(0, 0, << >>)
NoTurn(h, flow) == TurnOut(h, flow, NoError, << >>, << >>, << >>, << >>)

\* a drop that decrements whatever the guard's done flag
GuardDropAlways(done, n) == n - 1

\* mod.rs:503-507: the drop of a guard decrements the count of prepared
\* reads unless read() has marked the guard done; n is the count before
GuardDrop(done, n) == IF done THEN n ELSE n - 1

\* the election taken one reader early
ElectedEarly(n) == n <= 1

\* mod.rs:484: the reader whose decrement leaves no prepared read is the
\* one that reads
Elected(n) == n = 0

\* the call returns ret to its caller: to the owner of the Backend, or into
\* ReadEventsGuard::read (mod.rs:486-491), which bumps read_serial, wakes
\* the waiting readers and forwards the value; read() then returns and
\* drops its guard, which it has marked done (mod.rs:483); n is the count
\* of prepared reads before the return
Return(owner, ret, callbacks, n) ==
    /\ disp' = NoDispatch
    /\ IF owner = DirectCall
       THEN /\ prepared_reads' = n
            /\ UNCHANGED <<read_serial, threads>>
       ELSE /\ prepared_reads' = GuardDrop(TRUE, n)
            /\ read_serial' = read_serial + 1
            /\ threads' = [threads EXCEPT ![owner] =
                              [@ EXCEPT !.pc = "idle", !.ret = ret, !.drained = TRUE,
                                        !.round = read_serial,
                                        !.callbacks = callbacks]]

\* mod.rs:214: the call starts, or returns the latched error at once; n is
\* the count of prepared reads at the entry
Enter(owner, n) ==
    IF ~no_last_error(handle)
    THEN /\ Return(owner, Err(handle.last_error), 0, n)
         /\ last' = DispatchLog(owner, NoMessage, NoCallback, NoTurn(handle, "Latched"),
                                TRUE, Err(handle.last_error))
    ELSE /\ disp' = [NoDispatch EXCEPT !.owner = owner]
         /\ last' = DispatchLog(owner, NoMessage, NoCallback, NoTurn(handle, "Enter"),
                                FALSE, Ok(0))
         /\ prepared_reads' = n
         /\ UNCHANGED read_serial
         /\ IF owner = DirectCall THEN UNCHANGED threads
            ELSE threads' = [threads EXCEPT ![owner] =
                                [@ EXCEPT !.pc = "draining", !.round = read_serial]]

DispatchEvents ==
    /\ LockFree
    /\ Enter(DirectCall, prepared_reads)
    /\ UNCHANGED <<handle, retired, panicked, scenario>>

\* every message read is counted
CountedAll(flow) == flow \in {"Dispatched", "Continue"}

\* mod.rs:426: a turn that reaches the end of the loop body is counted
Counted(flow) == flow = "Dispatched"

\* one turn of the loop: read_one_message gives message, the callback of
\* its receiver behaves as cb
DispatchTurn(message, cb) ==
    /\ ~panicked
    /\ disp.owner # 0
    /\ disp.parsed < MaxBatch
    /\ LET out == DispatchMessage(handle, message, cb)
           ncb == disp.callbacks + Len(out.events)
       IN  /\ handle' = out.h
           /\ retired' = Retire(handle, out.h)
           /\ panicked' = (out.flow = "Panic")
           /\ IF out.flow = "Error"
              THEN /\ Return(disp.owner, Err(out.err), ncb, prepared_reads)
                   /\ last' = DispatchLog(disp.owner, message, cb, out, TRUE, Err(out.err))
              ELSE /\ disp' = [disp EXCEPT
                                 !.parsed = @ + 1,
                                 !.callbacks = ncb,
                                 !.stream = Append(@, message),
                                 !.invoked = @ \o out.events,
                                 !.dispatched = IF Counted(out.flow) THEN @ + 1 ELSE @]
                   /\ last' = DispatchLog(disp.owner, message, cb, out, FALSE, Ok(0))
                   /\ UNCHANGED <<prepared_reads, read_serial, threads>>
    /\ UNCHANGED scenario

\* the loop ends: the socket would block (mod.rs:230-234), fails
\* (mod.rs:228-229), or holds a malformed message (mod.rs:238-247)
DispatchStop(how) ==
    /\ ~panicked
    /\ disp.owner # 0
    /\ LET err == IF how = "Malformed"
                  THEN ProtocolError(0, 0, "", "Malformed Wayland message.")
                  ELSE IoError(how)
           ret == IF how = "WouldBlock" /\ disp.dispatched # 0
                  THEN Ok(disp.dispatched) ELSE Err(err)
           h2 == IF how = "WouldBlock" THEN handle ELSE store_and_return_error(handle, err)
       IN  /\ handle' = h2
           /\ Return(disp.owner, ret, disp.callbacks, prepared_reads)
           /\ last' = DispatchLog(disp.owner, NoMessage, NoCallback, NoTurn(h2, how), TRUE, ret)
    /\ UNCHANGED <<retired, panicked, scenario>>

StopInputs ==
    IF "read_errors" \in scenario THEN {"WouldBlock", "BrokenPipe", "Malformed"}
    ELSE {"WouldBlock"}

(***************************************************************************)
(* The read barrier: ReadEventsGuard, mod.rs:451-515.                      *)
(***************************************************************************)
\* ReadEventsGuard::try_new (Connection::prepare_read)
PrepareRead(t) ==
    /\ LockFree
    /\ threads[t].pc = "idle"
    /\ read_serial < MaxRounds
    /\ prepared_reads' = prepared_reads + 1
    /\ threads' = [threads EXCEPT ![t] = [IdleThread EXCEPT !.pc = "prepared"]]
    /\ last' = [op |-> "prepare_read", thread |-> t]
    /\ UNCHANGED <<handle, read_serial, disp, retired, panicked, scenario>>

\* ReadEventsGuard::read up to the return of dispatch_events or to the wait
Read(t) ==
    /\ LockFree
    /\ threads[t].pc = "prepared"
    /\ IF Elected(prepared_reads - 1)
       THEN Enter(t, prepared_reads - 1)
       ELSE /\ prepared_reads' = prepared_reads - 1
            /\ threads' = [threads EXCEPT ![t] =
                             [@ EXCEPT !.pc = "waiting", !.serial = read_serial,
                                       !.round = read_serial]]
            /\ last' = [op |-> "read", thread |-> t]
            /\ UNCHANGED <<read_serial, disp>>
    /\ UNCHANGED <<handle, retired, panicked, scenario>>

\* the waiting reader wakes (mod.rs:496-498): the condition variable lets
\* it go once read_serial has changed; read() returns and drops its guard,
\* marked done
Wake(t) ==
    /\ LockFree
    /\ threads[t].pc = "waiting"
    /\ threads[t].serial # read_serial
    /\ prepared_reads' = GuardDrop(TRUE, prepared_reads)
    /\ threads' = [threads EXCEPT ![t] =
            [@ EXCEPT !.pc = "idle",
                      !.ret = IF no_last_error(handle) THEN Ok(0)
                              ELSE Err(handle.last_error)]]
    /\ last' = [op |-> "wake", thread |-> t]
    /\ UNCHANGED <<handle, read_serial, disp, retired, panicked, scenario>>

\* a cancellation that does not bump the round
DropSerialKept(n, serial) == serial

\* mod.rs:507-511: the drop that leaves no prepared read cancels the round
DropSerial(n, serial) == IF n = 0 THEN serial + 1 ELSE serial

\* Drop for ReadEventsGuard of a guard that was not read
DropGuard(t) ==
    /\ LockFree
    /\ threads[t].pc = "prepared"
    /\ prepared_reads' = GuardDrop(FALSE, prepared_reads)
    /\ read_serial' = DropSerial(prepared_reads', read_serial)
    /\ threads' = [threads EXCEPT ![t].pc = "idle"]
    /\ last' = [op |-> "drop", thread |-> t]
    /\ UNCHANGED <<handle, disp, retired, panicked, scenario>>

(***************************************************************************)
(* Specifications.                                                         *)
(***************************************************************************)
HandleNext ==
    \/ \E sender \in HeldIds(handle) :
         \E msg \in RequestsOf(handle, sender) :
           \E data \in DataInputs(msg), wr \in WriteOutcomes : SendRequest(msg, data, wr)
    \/ \E spec \in PlaceholderInputs : PlaceholderId(spec)
    \/ \E id \in HeldIds(handle) : SetData(id, "data2")
    \/ \E id \in HeldIds(handle) : Info(id)
    \/ \E id \in HeldIds(handle) : GetData(id)
    \/ \E fl \in WriteOutcomes : Flush(fl)

DispatchNext ==
    \/ \E message \in ParseableMessages(handle) :
         \E cb \in CallbackInputs(handle, message) : DispatchTurn(message, cb)
    \/ \E how \in StopInputs : DispatchStop(how)

\* one owner of the Backend: requests, and dispatch_events called directly
Next ==
    \/ HandleNext
    \/ DispatchEvents
    \/ DispatchNext

Spec == Init /\ [][Next]_vars

\* several threads share the connection and read through prepare_read
\* (cx.rs:84-86) and ReadEventsGuard::read
BarrierInit ==
    /\ handle = ConnectHandle
    /\ prepared_reads = 0
    /\ read_serial = 0
    /\ disp = NoDispatch
    /\ threads = [t \in Threads |-> IdleThread]
    /\ retired = [k \in AllIds |-> null_id]
    /\ last = NoLast
    /\ panicked = FALSE
    /\ scenario = BarrierScenario

BarrierNext ==
    \/ \E t \in Threads : PrepareRead(t)
    \/ \E t \in Threads : Read(t)
    \/ \E t \in Threads : Wake(t)
    \/ \E t \in Threads : DropGuard(t)
    \/ \E message \in ParseableMessages(handle) :
         \E cb \in CallbackInputs(handle, message) : DispatchTurn(message, cb)
    \/ \E how \in StopInputs : DispatchStop(how)
    \/ \E sender \in HeldIds(handle) :
         \E msg \in RequestsOf(handle, sender) :
           \E data \in DataInputs(msg), wr \in WriteOutcomes : SendRequest(msg, data, wr)
    \/ \E fl \in WriteOutcomes : Flush(fl)

BarrierSpec == BarrierInit /\ [][BarrierNext]_vars

\* the scheduler runs every thread: a reader woken by notify_all returns, a
\* drain ends when the socket has no more to give, and every guard is read
\* or dropped in the end
BarrierFairness ==
    /\ \A t \in Threads : WF_vars(Wake(t))
    /\ \A t \in Threads : WF_vars(Read(t) \/ DropGuard(t))
    /\ WF_vars(\E how \in StopInputs : DispatchStop(how))

FairBarrierSpec == BarrierSpec /\ BarrierFairness

(***************************************************************************)
(* Connection (cx.rs): blocking_dispatch and roundtrip, called by threads  *)
(* that share the connection.  A thread inside one of the two calls is at  *)
(* "loop" (the test of the loop of roundtrip), "enter" (before the flush   *)
(* of blocking_dispatch_impl), "flushed" (before try_new), "polling" (it   *)
(* holds a guard and waits in poll), "prepared" (poll has returned),       *)
(* "waiting" or "draining" (inside read()), or "idle" (read() has          *)
(* returned).                                                              *)
(***************************************************************************)
\* the object data of the wl_callback of a roundtrip (cx.rs:224-239): its
\* event callback stores done and returns None, its destroyed does nothing
SyncData == "data1"

\* done.load (cx.rs:111): the event callback of the SyncData has run.  The
\* done event is the destructor of the wl_callback and a wl_callback has no
\* request, so that the callback has run exactly when the record of sync is
\* client_destroyed (mod.rs:391-405) or has left the map
done(h, sync) ==
    LET got == get_object(h, sync)
    IN  got.kind = "InvalidId" \/ got.object.data.client_destroyed

\* the protocol ids of the objects created by the requests that are still
\* in the outbound buffer
Unflushed(h) ==
    UNION {{h.socket[i].args[j].v
            : j \in {a \in 1..Len(h.socket[i].args) : h.socket[i].args[a].type = "NewId"}}
           : i \in 1..Len(h.socket)}

\* the server answers every sync with the done event: the callbacks whose
\* sync request has been flushed and whose done event has not been read
AnsweredSyncs(h) ==
    {k \in DOMAIN h.map : /\ h.map[k].interface = "wl_callback"
                           /\ ~h.map[k].data.server_destroyed
                           /\ k \notin Unflushed(h)}

\* POLLIN: the socket has something to read
Readable(h) == AnsweredSyncs(h) # {}

\* what nix::poll::poll returns (cx.rs:135-139); EINTR is retried
PollOutcomes ==
    IF "poll_errors" \in scenario THEN {"Ok", "EINVAL"} ELSE {"Ok"}

\* a call of the Connection returns ret to the thread t
CxReturn(t, ret) == [IdleThread EXCEPT !.out = ret]

\* the threads that call roundtrip, blocking_dispatch, and prepare_read
\* and read
RoundtripCallers == {1}
BlockingDispatchCallers == {2}
ReadCallers == Threads \ {1, 2}

\* Connection::roundtrip up to the loop (cx.rs:92-109): the sync request
\* of the display, with a SyncData of its own
Roundtrip(t) ==
    /\ LockFree
    /\ t \in RoundtripCallers
    /\ threads[t].pc = "idle"
    /\ threads[t].call = "none"
    /\ LET msg == Message(display_id, 0, <<ArgNewId(null_id)>>)
           r == send_request(handle, msg, SyncData, "Ok")
       IN  /\ CanCreate(handle, msg.args)
           /\ handle' = r.h
           /\ retired' = Retire(handle, r.h)
           /\ panicked' = (r.ret.kind = "Panic")
           /\ threads' = [threads EXCEPT ![t] =
                  IF r.ret.kind = "Ok"
                  THEN [IdleThread EXCEPT !.pc = "loop", !.call = "roundtrip",
                                          !.sync = r.ret.id]
                  ELSE [IdleThread EXCEPT !.out = Err(IoError("BrokenPipe"))]]
           /\ last' = [op |-> "roundtrip", thread |-> t, ret |-> r.ret,
                       written |-> r.written]
    /\ UNCHANGED <<prepared_reads, read_serial, disp, scenario>>

\* the test of the loop of roundtrip (cx.rs:111-115)
RoundtripTest(t) ==
    /\ ~panicked
    /\ threads[t].pc = "loop"
    /\ threads' = [threads EXCEPT ![t] =
           IF done(handle, threads[t].sync)
           THEN CxReturn(t, Ok(threads[t].dispatched))
           ELSE [@ EXCEPT !.pc = "enter"]]
    /\ last' = [op |-> "roundtrip_test", thread |-> t,
                done |-> done(handle, threads[t].sync)]
    /\ UNCHANGED <<handle, prepared_reads, read_serial, disp, retired, panicked,
                   scenario>>

\* blocking_dispatch_impl, the flush (cx.rs:124): called by
\* Connection::blocking_dispatch (cx.rs:88-90) or by the loop of roundtrip
\* (cx.rs:112); an error of the flush is returned to the caller
BlockingDispatchImpl(t, fl) ==
    /\ LockFree
    /\ \/ t \in BlockingDispatchCallers
          /\ threads[t].pc = "idle" /\ threads[t].call = "none"
          /\ read_serial < MaxRounds
       \/ threads[t].pc = "enter" /\ threads[t].call = "roundtrip"
    /\ LET r == flush(handle, fl)
           call == IF threads[t].call = "none" THEN "blocking_dispatch"
                   ELSE threads[t].call
       IN  /\ handle' = r.h
           /\ threads' = [threads EXCEPT ![t] =
                  IF r.ret.kind = "Err" THEN CxReturn(t, r.ret)
                  ELSE [@ EXCEPT !.pc = "flushed", !.call = call,
                                 !.out = [kind |-> "None"]]]
           /\ last' = [op |-> "blocking_dispatch_flush", thread |-> t, fl |-> fl,
                       call |-> call, ret |-> r.ret]
    /\ UNCHANGED <<prepared_reads, read_serial, disp, retired, panicked, scenario>>

\* blocking_dispatch_impl, ReadEventsGuard::try_new (cx.rs:127)
TryNew(t) ==
    /\ LockFree
    /\ threads[t].pc = "flushed"
    /\ prepared_reads' = prepared_reads + 1
    /\ threads' = [threads EXCEPT ![t].pc = "polling"]
    /\ last' = [op |-> "blocking_dispatch_try_new", thread |-> t]
    /\ UNCHANGED <<handle, read_serial, disp, retired, panicked, scenario>>

\* blocking_dispatch_impl, the poll (cx.rs:130-140): poll returns when the
\* socket is readable; on an error the call returns it and the guard is
\* dropped unread (mod.rs:503-513)
Poll(t, po) ==
    /\ LockFree
    /\ threads[t].pc = "polling"
    /\ IF po = "Ok"
       THEN /\ Readable(handle)
            /\ threads' = [threads EXCEPT ![t].pc = "prepared"]
            /\ UNCHANGED <<prepared_reads, read_serial>>
       ELSE /\ prepared_reads' = GuardDrop(FALSE, prepared_reads)
            /\ read_serial' = DropSerial(prepared_reads', read_serial)
            /\ threads' = [threads EXCEPT ![t] = CxReturn(t, Err(IoError(po)))]
    /\ last' = [op |-> "blocking_dispatch_poll", thread |-> t, po |-> po,
                call |-> threads[t].call,
                ret |-> IF po = "Ok" THEN [kind |-> "None"] ELSE Err(IoError(po))]
    /\ UNCHANGED <<handle, disp, retired, panicked, scenario>>

\* what blocking_dispatch_impl makes of the value of guard.read()
\* (cx.rs:143-149)
blocking_dispatch_ret(ret) ==
    IF ret = Err(IoError("WouldBlock")) THEN Ok(0) ELSE ret

\* blocking_dispatch_impl returns after guard.read(): to the caller of
\* blocking_dispatch, or to the loop of roundtrip, which returns an error
\* and adds up the rest (cx.rs:112)
BlockingDispatchReturn(t) ==
    /\ ~panicked
    /\ threads[t].pc = "idle"
    /\ threads[t].call # "none"
    /\ LET ret == blocking_dispatch_ret(threads[t].ret)
       IN  /\ threads' = [threads EXCEPT ![t] =
                  IF threads[t].call = "roundtrip" /\ ret.kind = "Ok"
                  THEN [IdleThread EXCEPT !.pc = "loop", !.call = "roundtrip",
                                          !.sync = threads[t].sync,
                                          !.dispatched = threads[t].dispatched + ret.n]
                  ELSE CxReturn(t, ret)]
           /\ last' = [op |-> "blocking_dispatch", thread |-> t,
                       call |-> threads[t].call, read |-> threads[t].ret,
                       ret |-> ret]
    /\ UNCHANGED <<handle, prepared_reads, read_serial, disp, retired, panicked,
                   scenario>>

\* the clients of this part call roundtrip and blocking_dispatch, and
\* prepare_read and read; the flush and the poll may fail; the server
\* sends the done events of the syncs and nothing else
CxScenario == {"done", "write_errors", "poll_errors"}

CxInit ==
    /\ handle = ConnectHandle
    /\ prepared_reads = 0
    /\ read_serial = 0
    /\ disp = NoDispatch
    /\ threads = [t \in Threads |-> IdleThread]
    /\ retired = [k \in AllIds |-> null_id]
    /\ last = NoLast
    /\ panicked = FALSE
    /\ scenario = CxScenario

\* the messages read_one_message gives: the answers of the server
AnswerMessages(h) ==
    {m \in ParseableMessages(h) : m.sender_id \in AnsweredSyncs(h)}

\* the socket would block once the answers have been read, or when no
\* more than MaxBatch messages have arrived so far
StopsNow(how) ==
    how = "WouldBlock" => (~Readable(handle) \/ disp.parsed >= MaxBatch)

CxNext ==
    \/ \E t \in Threads : Roundtrip(t)
    \/ \E t \in Threads : RoundtripTest(t)
    \/ \E t \in Threads : \E fl \in WriteOutcomes : BlockingDispatchImpl(t, fl)
    \/ \E t \in Threads : TryNew(t)
    \/ \E t \in Threads : \E po \in PollOutcomes : Poll(t, po)
    \/ \E t \in Threads : BlockingDispatchReturn(t)
    \/ \E t \in ReadCallers : PrepareRead(t)
    \/ \E t \in ReadCallers : DropGuard(t)
    \/ \E t \in Threads : Read(t)
    \/ \E t \in Threads : Wake(t)
    \/ \E message \in AnswerMessages(handle) :
         \E cb \in CallbackInputs(handle, message) : DispatchTurn(message, cb)
    \/ \E how \in StopInputs : StopsNow(how) /\ DispatchStop(how)

CxSpec == CxInit /\ [][CxNext]_vars

\* the scheduler runs every thread that is inside a call: it flushes,
\* prepares, returns from poll once the socket is readable, reads, wakes
\* and returns; a guard taken with prepare_read is read or dropped in the
\* end; a drain reads what the socket has and ends
CxFairness ==
    /\ \A t \in Threads : WF_vars(RoundtripTest(t))
    /\ \A t \in Threads :
         WF_vars(threads[t].call = "roundtrip"
                   /\ \E fl \in WriteOutcomes : BlockingDispatchImpl(t, fl))
    /\ \A t \in Threads : WF_vars(TryNew(t))
    /\ \A t \in Threads : WF_vars(Poll(t, "Ok"))
    /\ \A t \in Threads : WF_vars(BlockingDispatchReturn(t))
    /\ \A t \in Threads : WF_vars(Read(t) \/ (t \in ReadCallers /\ DropGuard(t)))
    /\ \A t \in Threads : WF_vars(Wake(t))
    /\ WF_vars(\/ \E message \in AnswerMessages(handle) :
                    \E cb \in CallbackInputs(handle, message) : DispatchTurn(message, cb)
               \/ \E how \in StopInputs : StopsNow(how) /\ DispatchStop(how))

FairCxSpec == CxSpec /\ CxFairness

(***************************************************************************)
(* The read barrier (spec section 6).                                      *)
(***************************************************************************)
Returned(t) == threads[t].pc = "idle" /\ threads[t].ret.kind # "None"
RanLoop(t) == threads[t].drained \/ threads[t].pc = "draining"

RECURSIVE SumOfRound(_, _)
SumOfRound(r, ts) ==
    IF ts = {} THEN 0
    ELSE LET t == CHOOSE x \in ts : TRUE
             v == IF Returned(t) /\ threads[t].round = r /\ threads[t].ret.kind = "Ok"
                  THEN threads[t].ret.n ELSE 0
         IN  v + SumOfRound(r, ts \ {t})

\* C1: of the readers of one round, at most one calls dispatch_events, and
\* it is the one whose decrement left no prepared read; every other reader
\* returns 0, or an error when the latch is set; the values returned by the
\* readers of a round add up to the number of events the drainer
\* dispatched, in every round that leaves the latch unset
C1_ReadElection ==
    /\ \A t1, t2 \in Threads :
         (t1 # t2 /\ RanLoop(t1) /\ RanLoop(t2)
             /\ threads[t1].pc \in {"idle", "draining"}
             /\ threads[t2].pc \in {"idle", "draining"})
         => threads[t1].round # threads[t2].round
    /\ \A t \in Threads :
         threads[t].pc = "draining" => prepared_reads = 0 /\ disp.owner = t
    /\ \A t \in Threads :
         (Returned(t) /\ ~threads[t].drained)
         => \/ threads[t].ret = Ok(0)
            \/ threads[t].ret.kind = "Err" /\ ~no_last_error(handle)
    /\ \A t \in Threads :
         (Returned(t) /\ threads[t].drained /\ threads[t].ret.kind = "Ok")
         => threads[t].ret.n = threads[t].callbacks
    /\ \A t \in Threads :
         (Returned(t) /\ threads[t].drained
             /\ (threads[t].ret.kind = "Ok" \/ no_last_error(handle)))
         => SumOfRound(threads[t].round, Threads) = threads[t].callbacks

\* two readers of one round have returned: the drainer the number of events
\* it dispatched, the other 0
C1_Witness ==
    \E t1, t2 \in Threads :
        /\ t1 # t2
        /\ Returned(t1) /\ Returned(t2)
        /\ threads[t1].round = threads[t2].round
        /\ threads[t1].drained /\ ~threads[t2].drained
        /\ threads[t1].ret.kind = "Ok" /\ threads[t1].ret.n = MaxBatch
        /\ threads[t2].ret = Ok(0)

\* C2: while the dispatch loop started by read() runs, no guard is
\* outstanding (the count of prepared reads is zero and no thread holds a
\* guard), and every reader still asleep belongs to the round being drained
C2_DrainAfterGuards ==
    disp.owner \in Threads =>
        /\ prepared_reads = 0
        /\ \A t \in Threads : threads[t].pc # "prepared"
        /\ \A t \in Threads :
             (threads[t].pc = "waiting" /\ threads[t].serial = read_serial)
             => threads[t].round = threads[disp.owner].round

\* a drain has dispatched an event while another reader of the round sleeps
C2_Witness ==
    /\ disp.owner \in Threads
    /\ disp.dispatched >= 1
    /\ \E t \in Threads : threads[t].pc = "waiting" /\ threads[t].serial = read_serial

\* a guard is dropped unread
DropStep(t) ==
    /\ threads[t].pc = "prepared"
    /\ threads'[t].pc = "idle"
    /\ ~threads'[t].drained

\* what a drop of an unread guard does to the count, to the round counter
\* and to the sleepers
DropCancels ==
    [][\A t \in Threads : DropStep(t) =>
          /\ prepared_reads' = prepared_reads - 1
          /\ read_serial' = IF prepared_reads' = 0 THEN read_serial + 1
                            ELSE read_serial
          /\ (prepared_reads' = 0 =>
                \A u \in Threads : threads'[u].pc = "waiting"
                                     => threads'[u].serial # read_serial')]_vars

\* C3 as stated: every reader waiting inside read() returns once every
\* outstanding guard is read or dropped in the end
C3_Original ==
    /\ DropCancels
    /\ \A t \in Threads : (threads[t].pc = "waiting") ~> (threads[t].pc = "idle")

\* C3: dropping a guard decrements the count and, when the count reaches
\* zero, bumps the round counter, which lets every sleeper go; every reader
\* waiting inside read() returns in the end provided the count of prepared
\* reads keeps coming back to zero (guards prepared while others are still
\* held can keep it positive for ever, and with it the sleeper asleep)
C3_CancelAndReturn ==
    /\ DropCancels
    /\ ([]<>(prepared_reads = 0)) =>
          \A t \in Threads : (threads[t].pc = "waiting") ~> (threads[t].pc = "idle")

\* a sleeper has returned from a round that ended by cancellation alone
C3_Witness ==
    /\ last = [op |-> "wake", thread |-> 1]
    /\ read_serial = 1
    /\ threads[1].ret = Ok(0)
    /\ \A t \in Threads : threads[t].pc = "idle" /\ ~threads[t].drained

(***************************************************************************)
(* The error latch (spec sections 4.8 and 7).                              *)
(***************************************************************************)
Latched == ~no_last_error(handle)

\* what the latch protects
Guarded(h) == <<h.map, h.last_serial, h.pending_placeholder, h.socket>>

\* the step is a call of op made on the Handle from outside the dispatch
\* loop (for dispatch_events: the entry of the call)
Called(op) == disp.owner = 0 /\ ~panicked /\ last'.op = op

\* C4 as stated: once the latch is set, send_request, flush,
\* dispatch_events and set_data return the latched error and leave the
\* map, the serial counter, the pending placeholder and the socket alone
C4_Original ==
    [][(Latched /\ \E op \in {"send_request", "flush", "dispatch_events", "set_data"} :
                      Called(op))
        => /\ last'.ret = Err(handle.last_error)
           /\ Guarded(handle') = Guarded(handle)]_vars

\* C4 amended: once the latch is set, flush and dispatch_events return the
\* latched error and leave the Handle as it is; send_request and set_data
\* do not consult the latch and never return the latched error
C4_LatchedFlushDispatch ==
    [][/\ (Latched /\ (Called("flush") \/ Called("dispatch_events")))
          => /\ last'.ret = Err(handle.last_error)
             /\ last'.op = "dispatch_events" => last'.returned
             /\ handle' = handle
       /\ (Latched /\ (Called("send_request") \/ Called("set_data")))
          => last'.ret.kind \in {"Ok", "InvalidId", "Panic"}]_vars

\* flush was refused on a latched connection whose socket holds a request
C4_Witness ==
    /\ Latched
    /\ last.op = "flush" /\ last.fl = "Ok"
    /\ last.ret = Err(handle.last_error)
    /\ Len(handle.socket) > 0

(***************************************************************************)
(* Destruction (spec sections 3, 4.3, 4.4 and 4.7).                        *)
(***************************************************************************)
BothDestroyed(h, k) ==
    MapHas(h.map, k) /\ h.map[k].data.client_destroyed /\ h.map[k].data.server_destroyed

\* the step dispatched an event of opcode op to the display
DisplayEventStep(op) ==
    /\ last'.op = "dispatch_events"
    /\ last'.message.sender_id = 1
    /\ last'.message.opcode = op
    /\ last'.flow \in {"Continue", "Error"}
    /\ disp.owner # 0

\* the step dispatched a destructor event to the live object k
DestructorEventStep(k) ==
    /\ last'.op = "dispatch_events"
    /\ last'.flow = "Dispatched"
    /\ disp.owner # 0
    /\ last'.message.sender_id = k
    /\ MapHas(handle.map, k)
    /\ InterfaceEvents(handle.map[k].interface)[last'.message.opcode + 1].is_destructor

\* the step is an accepted destructor request of the object k
DestructorRequestStep(k) ==
    /\ Called("send_request")
    /\ last'.ret.kind = "Ok"
    /\ last'.msg.sender_id.id = k
    /\ MapHas(handle.map, k)
    /\ InterfaceRequests(handle.map[k].interface)[last'.msg.opcode + 1].is_destructor

\* C5 as stated: between operations no record of the map has both
\* client_destroyed and server_destroyed
C5_Original ==
    LockFree => \A k \in AllIds : ~BothDestroyed(handle, k)

\* C5 amended: delete-id removes the record it names when the record is
\* client_destroyed; a destructor event, and a destructor request after
\* delete-id, set the second flag and leave the record in the map
C5_RemovalByDeleteId ==
    [][\A k \in AllIds :
         /\ (DisplayEventStep(1) /\ last'.message.args[1].v = k
                /\ MapHas(handle.map, k) /\ handle.map[k].data.client_destroyed)
            => ~MapHas(handle'.map, k)
         /\ (DisplayEventStep(1) /\ last'.message.args[1].v = k
                /\ MapHas(handle.map, k) /\ ~handle.map[k].data.client_destroyed)
            => /\ MapHas(handle'.map, k)
               /\ handle'.map[k].data.server_destroyed
               /\ ~handle'.map[k].data.client_destroyed
         /\ DestructorEventStep(k) => BothDestroyed(handle', k)
         /\ (DestructorRequestStep(k) /\ handle.map[k].data.server_destroyed)
            => BothDestroyed(handle', k)]_vars

\* delete-id has removed a record that the client had destroyed
C5_Witness ==
    /\ last.op = "dispatch_events"
    /\ last.message.sender_id = 1 /\ last.message.opcode = 1
    /\ \E k \in ClientIds :
         /\ last.message.args[1].v = k
         /\ ~MapHas(handle.map, k)
         /\ retired[k] # null_id
         /\ retired[k].interface = "test_global"

\* the step is one turn of the dispatch loop on a message
TurnStep ==
    /\ last'.op = "dispatch_events"
    /\ disp.owner # 0
    /\ last'.message.sender_id # 0

\* the turn is on an event addressed to an object, not the display, whose
\* client_destroyed flag is set
ToDestroyed ==
    /\ TurnStep
    /\ last'.message.sender_id # 1
    /\ handle.map[last'.message.sender_id].data.client_destroyed

\* the file descriptors a wire message carries
CarriedFds(args) ==
    LET fds == SelectSeq(args, LAMBDA a : a.type = "Fd")
    IN  [i \in 1..Len(fds) |-> fds[i].v]

\* every Object argument is null or names a record of the interface the
\* descriptor expects, and every NewId names a slot that can take a record
ArgsResolve(h, desc, args) ==
    \A i \in 1..Len(args) :
        /\ args[i].type = "Object" /\ args[i].v # 0
           => /\ MapHas(h.map, args[i].v)
              /\ LET ai == 1 + Cardinality({j \in 1..(i - 1) :
                                   args[j].type = "Object" /\ args[j].v # 0})
                 IN  ai <= Len(desc.arg_interfaces)
                     => same_interface_or_anonymous(desc.arg_interfaces[ai],
                                                    h.map[args[i].v].interface)
        /\ args[i].type = "NewId"
           => \/ ~MapHas(h.map, args[i].v)
              \/ args[i].v >= SERVER_ID_LIMIT /\ h.map[args[i].v].data.client_destroyed

EventDesc(h, message) ==
    InterfaceEvents(h.map[message.sender_id].interface)[message.opcode + 1]

\* C6 as stated: an event addressed to a client_destroyed object invokes
\* no callback, is discarded with every file descriptor it carries closed,
\* and the loop goes on
C6_Original ==
    [][ToDestroyed
        => /\ last'.events = << >>
           /\ last'.flow = "Continue"
           /\ ~last'.returned
           /\ last'.closed = CarriedFds(last'.message.args)]_vars

\* C6 amended: an event addressed to a client_destroyed object never
\* invokes a callback; when its arguments resolve against the map it is
\* discarded, its file descriptors are closed and the loop goes on;
\* otherwise the loop latches a protocol error and returns it, and closes
\* nothing
C6_SwallowAfterArguments ==
    [][ToDestroyed
        => /\ last'.events = << >>
           /\ last'.destroyed = << >>
           /\ ArgsResolve(handle, EventDesc(handle, last'.message), last'.message.args)
              => /\ last'.flow = "Continue"
                 /\ ~last'.returned
                 /\ last'.closed = CarriedFds(last'.message.args)
           /\ ~ArgsResolve(handle, EventDesc(handle, last'.message), last'.message.args)
              => /\ last'.flow = "Error"
                 /\ last'.returned
                 /\ last'.closed = << >>
                 /\ handle'.last_error.kind = "Protocol"
                 /\ last'.ret = Err(handle'.last_error)]_vars

\* an event carrying a file descriptor was swallowed and the descriptor
\* closed
C6_Witness ==
    /\ last.op = "dispatch_events"
    /\ last.flow = "Continue"
    /\ last.message.sender_id \in DOMAIN handle.map \ {1}
    /\ handle.map[last.message.sender_id].data.client_destroyed
    /\ last.closed = <<9>>
    /\ last.events = << >>
    /\ disp.owner # 0

\* the number of destructor requests among the calls of a callback
NestedDestructors(h, calls) ==
    Cardinality({i \in 1..Len(calls) :
        /\ calls[i].op = "send_request"
        /\ MapHas(h.map, calls[i].msg.sender_id.id)
        /\ InterfaceRequests(h.map[calls[i].msg.sender_id.id].interface)
               [calls[i].msg.opcode + 1].is_destructor})

\* C7: an accepted destructor request calls destroyed once, on its sender,
\* and leaves the sender client_destroyed; a dispatched destructor event
\* calls destroyed once, on its sender, after the calls made by the
\* requests of its callback, and leaves the sender client_destroyed and
\* server_destroyed
C7_DestroyedOnce ==
    [][\A k \in AllIds :
         /\ DestructorRequestStep(k)
            => /\ last'.destroyed = <<last'.msg.sender_id>>
               /\ MapHas(handle'.map, k)
               /\ handle'.map[k].data.client_destroyed
               /\ handle'.map[k].data.server_destroyed = handle.map[k].data.server_destroyed
         /\ DestructorEventStep(k)
            => LET id == ObjectId(k, handle.map[k].data.serial, handle.map[k].interface)
                   n == NestedDestructors(handle, last'.cb.calls)
               IN  /\ Len(last'.destroyed) = n + 1
                   /\ last'.destroyed[n + 1] = id
                   /\ last'.events = <<id>>
                   /\ BothDestroyed(handle', k)]_vars

\* a destructor event has called destroyed on its sender after its callback
\* sent a destructor request
C7_Witness ==
    /\ last.op = "dispatch_events"
    /\ last.flow = "Dispatched"
    /\ Len(last.destroyed) = 2
    /\ BothDestroyed(handle, last.message.sender_id)

\* the turn is on an event whose NewId argument names the slot k
NewIdStep(k) ==
    /\ TurnStep
    /\ last'.message.sender_id # 1
    /\ \E i \in 1..Len(last'.message.args) :
         last'.message.args[i].type = "NewId" /\ last'.message.args[i].v = k

\* the slot k holds a new record of a fresh serial
FreshChild(k) ==
    /\ last'.flow # "Error"
    /\ MapHas(handle'.map, k)
    /\ handle'.map[k].data.serial = WrappingAdd1(handle.last_serial)
    /\ handle'.map[k].interface = EventDesc(handle, last'.message).child_interface
    /\ ~handle'.map[k].data.server_destroyed

\* the loop latched a protocol error, returned it and left the slot k alone
Collision(k) ==
    /\ last'.flow = "Error"
    /\ last'.returned
    /\ handle'.last_error.kind = "Protocol"
    /\ last'.ret = Err(handle'.last_error)
    /\ MapHas(handle'.map, k)
    /\ handle'.map[k] = handle.map[k]

\* C8 as stated: a server-announced NewId evicts a client_destroyed record
\* of its slot and inserts the new record; on a live record the loop
\* latches and returns a protocol error and the record stays
C8_Original ==
    [][\A k \in AllIds :
         (NewIdStep(k) /\ MapHas(handle.map, k))
         => IF handle.map[k].data.client_destroyed THEN FreshChild(k)
            ELSE Collision(k)]_vars

\* C8 amended: the eviction is for slots of the server range; a record in
\* a slot of the client range is a collision whatever its flags
C8_EvictServerRange ==
    [][\A k \in AllIds :
         (NewIdStep(k) /\ MapHas(handle.map, k))
         => IF handle.map[k].data.client_destroyed /\ k >= SERVER_ID_LIMIT
            THEN FreshChild(k)
            ELSE Collision(k)]_vars

\* a client_destroyed record of the server range was evicted for a new one
C8_Witness ==
    /\ last.op = "dispatch_events"
    /\ last.flow = "Dispatched"
    /\ \E k \in ServerIds :
         /\ last.message.args = <<WireNewId(k)>>
         /\ MapHas(handle.map, k)
         /\ retired[k] # null_id
         /\ retired[k].serial # handle.map[k].data.serial
         /\ handle.map[k].data.serial = handle.last_serial

(***************************************************************************)
(* Object Ids (spec sections 3 and 7).                                     *)
(***************************************************************************)
\* the map holds a record for the id, of the id's serial
Known(h, oid) == MapHas(h.map, oid.id) /\ h.map[oid.id].data.serial = oid.serial

\* the id names a record of its serial that the client has not destroyed
Usable(h, oid) == Known(h, oid) /\ ~h.map[oid.id].data.client_destroyed

\* a non-null Object argument of the request names no record of its serial
UnknownArgument(h, msg) ==
    \E i \in 1..Len(msg.args) :
        msg.args[i].type = "Object" /\ msg.args[i].id.id # 0 /\ ~Known(h, msg.args[i].id)

\* C9 as stated: send_request and info return invalid-id exactly when the
\* id they are given has no record, or a record of another serial, or a
\* client_destroyed record
C9_Original ==
    [][/\ Called("info")
          => (last'.ret = InvalidId <=> ~Usable(handle, last'.id))
       /\ Called("send_request")
          => (last'.ret = InvalidId <=> ~Usable(handle, last'.msg.sender_id))]_vars

\* C9 amended: info returns invalid-id exactly when its id is not usable;
\* send_request returns invalid-id when its sender is not usable and, for a
\* request that passes the protocol checks, exactly when the sender is not
\* usable or a non-null Object argument names no record of its serial; an
\* invalid-id leaves the latch as it was; right after a destructor request
\* of k, info(k) and every send_request of sender k return invalid-id
C9_InvalidId ==
    [][/\ Called("info")
          => (last'.ret = InvalidId <=> ~Usable(handle, last'.id))
       /\ Called("send_request")
          => /\ ~Usable(handle, last'.msg.sender_id) => last'.ret = InvalidId
             /\ last'.ret.kind # "Panic"
                => (last'.ret = InvalidId
                      <=> \/ ~Usable(handle, last'.msg.sender_id)
                          \/ UnknownArgument(handle, last'.msg))
       /\ ((Called("info") \/ Called("send_request")) /\ last'.ret = InvalidId)
          => handle'.last_error = handle.last_error
       /\ \A k \in AllIds :
            DestructorRequestStep(k)
            => /\ info(handle', last'.msg.sender_id) = InvalidId
               /\ \A m \in RequestsOf(handle', last'.msg.sender_id) :
                    send_request(handle', m, NoData, "Ok").ret = InvalidId]_vars

\* info has refused the id of an object, still in the map, that the client
\* has destroyed, and the connection is live
C9_Witness ==
    /\ last.op = "info"
    /\ last.ret = InvalidId
    /\ Known(handle, last.id)
    /\ handle.map[last.id.id].data.client_destroyed
    /\ ~handle.map[last.id.id].data.server_destroyed
    /\ no_last_error(handle)

\* the id is of a record that has left the map, and its slot holds a new
\* record of another serial
Stale(h, oid) ==
    /\ oid # null_id
    /\ oid = retired[oid.id]
    /\ MapHas(h.map, oid.id)
    /\ h.map[oid.id].data.serial # oid.serial

\* C10: an operation given a stale Object Id, as its id, its sender or an
\* Object argument, returns invalid-id and leaves the new record of the
\* slot as it is
C10_StaleIds ==
    [][/\ \A op \in {"info", "get_data", "set_data"} :
            (Called(op) /\ Stale(handle, last'.id))
            => /\ last'.ret = InvalidId
               /\ handle' = handle
       /\ (Called("send_request") /\ Stale(handle, last'.msg.sender_id))
            => /\ last'.ret = InvalidId
               /\ last'.written = << >> /\ last'.destroyed = << >>
               /\ handle' = handle
       /\ \A i \in 1..3 :
            (/\ Called("send_request")
             /\ i <= Len(last'.msg.args)
             /\ last'.msg.args[i].type = "Object"
             /\ Stale(handle, last'.msg.args[i].id)
             /\ last'.ret.kind # "Panic")
            => /\ last'.ret = InvalidId
               /\ last'.written = << >> /\ last'.destroyed = << >>
               /\ LET k == last'.msg.args[i].id.id
                  IN  MapHas(handle'.map, k) /\ handle'.map[k] = handle.map[k]]_vars

\* set_data has refused a stale id whose slot holds a new record
C10_Witness ==
    /\ last.op = "set_data"
    /\ last.ret = InvalidId
    /\ Stale(handle, last.id)
    /\ handle.map[last.id.id].data.user_data = "data1"
    /\ handle.map[last.id.id].interface = last.id.interface

(***************************************************************************)
(* Lookups on destroyed objects (spec section 6).                          *)
(***************************************************************************)
\* the id names a record of its serial that the client has destroyed and
\* that is still in the map
AwaitingDeleteId(h, oid) ==
    Known(h, oid) /\ h.map[oid.id].data.client_destroyed

\* C11: info, get_data and set_data each return invalid-id for the id of a
\* record that is client_destroyed and still in the map
C11_GatedOnDestruction ==
    [][\A op \in {"info", "get_data", "set_data"} :
          (Called(op) /\ AwaitingDeleteId(handle, last'.id))
          => last'.ret = InvalidId]_vars

(***************************************************************************)
(* Ordering (spec section 5).                                              *)
(***************************************************************************)
\* the sender and the opcode of each message of a sequence
Heads(ms) == [i \in 1..Len(ms) |-> <<ms[i].sender_id, ms[i].opcode>>]

\* the requests a callback sends, in the order of its calls
SentBy(calls) ==
    LET sends == SelectSeq(calls, LAMBDA c : c.op = "send_request")
    IN  [i \in 1..Len(sends) |-> <<sends[i].msg.sender_id.id, sends[i].msg.opcode>>]

\* a is b with some of its elements left out, the others in their order
RECURSIVE IsSubSeq(_, _)
IsSubSeq(a, b) ==
    IF a = << >> THEN TRUE
    ELSE IF b = << >> THEN FALSE
    ELSE IF Head(a) = Head(b) THEN IsSubSeq(Tail(a), Tail(b))
    ELSE IsSubSeq(a, Tail(b))

FailedWriteStep ==
    /\ Called("send_request")
    /\ last'.wr # "Ok"
    /\ send_request(handle, last'.msg, last'.data, "Ok").ret.kind = "Ok"

\* C13: when the write fails, send_request returns what it returns when the
\* write succeeds (Ok with the id of the child or the null id), has the
\* same effects on the Handle (the child's record, the destructor marking)
\* and makes the same call of destroyed; the message is not in the outbound
\* buffer and the latch holds the IO error
C13_WriteErrorSwallowed ==
    [][FailedWriteStep
        => LET ok == send_request(handle, last'.msg, last'.data, "Ok")
           IN  /\ last'.ret = ok.ret
               /\ last'.destroyed = ok.destroyed
               /\ last'.written = << >>
               /\ handle' = [ok.h EXCEPT !.socket = handle.socket,
                                         !.last_error = IoError(last'.wr)]
               /\ HasNewId(InterfaceRequests(last'.msg.sender_id.interface)
                               [last'.msg.opcode + 1].signature)
                  => /\ ~is_null(last'.ret.id)
                     /\ ~Known(handle, last'.ret.id)
                     /\ Usable(handle', last'.ret.id)
               /\ ~HasNewId(InterfaceRequests(last'.msg.sender_id.interface)
                                [last'.msg.opcode + 1].signature)
                  => last'.ret = OkId(null_id)
               /\ InterfaceRequests(last'.msg.sender_id.interface)
                      [last'.msg.opcode + 1].is_destructor
                  => /\ last'.destroyed = <<last'.msg.sender_id>>
                     /\ AwaitingDeleteId(handle', last'.msg.sender_id)]_vars

\* a destructor request whose write failed has returned Ok with the null
\* id, marked its sender and called destroyed, and the latch holds the error
C13_Witness ==
    /\ last.op = "send_request"
    /\ last.wr = "BrokenPipe"
    /\ last.ret = OkId(null_id)
    /\ last.destroyed = <<last.msg.sender_id>>
    /\ AwaitingDeleteId(handle, last.msg.sender_id)
    /\ handle.last_error = IoError("BrokenPipe")
    /\ handle.socket = << >>

(***************************************************************************)
(* The pending placeholder (spec sections 4.3 and 6).                      *)
(***************************************************************************)
\* the descriptor of a request built for the interface its sender names
RequestDesc(msg) == InterfaceRequests(msg.sender_id.interface)[msg.opcode + 1]

\* the request reaches the resolution of its child: its sender is usable
\* and its signature holds a NewId
ResolvesChild(h, msg) ==
    Usable(h, msg.sender_id) /\ HasNewId(RequestDesc(msg).signature)

\* C14 as stated: whatever the next send_request is, the pending slot is
\* empty after it returns
C14_Original ==
    [][(Called("send_request") /\ last'.ret.kind # "Panic")
        => handle'.pending_placeholder = NoPlaceholder]_vars

\* C14 amended: a send_request that reaches the resolution of a child
\* empties the pending slot, and a child created with a stashed spec and no
\* declared child interface has the interface and version of the spec; a
\* send_request of a request without NewId argument, or one refused for its
\* sender, leaves the slot as it is, so the spec waits for a later
\* constructor
C14_SlotTakenByConstructor ==
    [][Called("send_request")
        => /\ ResolvesChild(handle, last'.msg)
              => handle'.pending_placeholder = NoPlaceholder
           /\ ~ResolvesChild(handle, last'.msg)
              => handle'.pending_placeholder = handle.pending_placeholder
           /\ (/\ ResolvesChild(handle, last'.msg)
               /\ last'.ret.kind = "Ok"
               /\ handle.pending_placeholder # NoPlaceholder
               /\ RequestDesc(last'.msg).child_interface = NoInterface)
              => /\ last'.ret.id.interface = handle.pending_placeholder.interface
                 /\ handle'.map[last'.ret.id.id].interface
                      = handle.pending_placeholder.interface
                 /\ handle'.map[last'.ret.id.id].version
                      = handle.pending_placeholder.version]_vars

\* a request without NewId argument was sent and accepted, and the spec
\* stashed before it is still in the pending slot
C14_Witness ==
    /\ last.op = "send_request"
    /\ last.ret = OkId(null_id)
    /\ ~HasNewId(RequestDesc(last.msg).signature)
    /\ handle.pending_placeholder # NoPlaceholder

(***************************************************************************)
(* The display error event (spec sections 4.7 and 7).                      *)
(***************************************************************************)
\* the protocol error the display error event message stands for
DisplayError(h, message) ==
    ProtocolError(message.args[2].v, message.args[1].v,
                  IF MapHas(h.map, message.args[1].v)
                  THEN h.map[message.args[1].v].interface ELSE "<unknown>",
                  ToStringLossy(message.args[3].v))

\* the latch holds an error sent by the server in a display error event
\* (the errors the backend raises itself carry the code 0)
DisplayErrorLatched(h) == h.last_error.kind = "Protocol" /\ h.last_error.code # 0

\* C15: a display error event latches the protocol error of its code,
\* object id, message and interface name and the call returns it without a
\* callback and without another turn; from then on the latch keeps that
\* error and every dispatch_events and flush returns it
C15_DisplayError ==
    [][/\ DisplayEventStep(0)
          => /\ handle'.last_error = DisplayError(handle, last'.message)
             /\ last'.ret = Err(handle'.last_error)
             /\ last'.flow = "Error" /\ last'.returned
             /\ last'.events = << >>
             /\ disp'.owner = 0
       /\ DisplayErrorLatched(handle)
          => /\ handle'.last_error = handle.last_error
             /\ (Called("flush") \/ Called("dispatch_events"))
                => last'.ret = Err(handle.last_error)]_vars

(***************************************************************************)
(* The value dispatch_events returns (spec section 4.4).                   *)
(***************************************************************************)
\* the step ends a call of dispatch_events on a socket that would block
WouldBlockStep ==
    /\ last'.op = "dispatch_events"
    /\ last'.flow = "WouldBlock"
    /\ disp.owner # 0

\* C16 as stated: on a socket that would block the call returns the number
\* of messages it has read and processed, and WouldBlock if it has read
\* none; the latch is not set
C16_Original ==
    [][WouldBlockStep
        => /\ last'.ret = IF Len(disp.stream) # 0 THEN Ok(Len(disp.stream))
                          ELSE Err(IoError("WouldBlock"))
           /\ handle'.last_error = handle.last_error]_vars

\* C16 amended: on a socket that would block the call returns the number
\* of messages it has delivered to an event callback, and WouldBlock if it
\* has delivered none; the events of the display and the events swallowed
\* for a client_destroyed object are read and processed and not counted;
\* the Handle, and with it the latch, stays as it is
C16_CountsCallbacks ==
    [][WouldBlockStep
        => /\ last'.ret = IF Len(disp.invoked) # 0 THEN Ok(Len(disp.invoked))
                          ELSE Err(IoError("WouldBlock"))
           /\ Len(disp.stream) = disp.parsed
           /\ Len(disp.invoked) <= Len(disp.stream)
           /\ last'.returned
           /\ handle' = handle]_vars

\* a call that read two messages and delivered one of them has returned 1
C16_Witness ==
    /\ last.op = "dispatch_events"
    /\ last.flow = "WouldBlock"
    /\ last.parsed = 2
    /\ last.ret = Ok(1)
    /\ no_last_error(handle)

(***************************************************************************)
(* The display record (spec section 3).                                    *)
(***************************************************************************)
\* C17: the map holds at id 1 the record of the display made by connect: of
\* the display interface, of serial 0, never client_destroyed
C17_DisplayBound ==
    /\ MapHas(handle.map, 1)
    /\ handle.map[1].interface = WL_DISPLAY_INTERFACE
    /\ handle.map[1].data.serial = 0
    /\ handle.map[1].version = 1
    /\ ~handle.map[1].data.client_destroyed
    /\ Usable(handle, display_id)

\* the server has sent delete_id(1) and the display is still in the map
C17_Witness ==
    /\ last.op = "dispatch_events"
    /\ last.message = Message(1, 1, <<ArgUint(1)>>)
    /\ MapHas(handle.map, 1)
    /\ handle.map[1].data.server_destroyed

(***************************************************************************)
(* The NewId argument of a request (spec section 6).                       *)
(***************************************************************************)
\* the request carries a NewId argument that is not a placeholder: its
\* protocol id is not 0
CarriesObjectAsNewId(msg) ==
    \E i \in 1..Len(msg.args) : msg.args[i].type = "NewId" /\ msg.args[i].id.id # 0

\* C18: a send_request of a usable sender, given an object data and a NewId
\* argument whose protocol id is not 0, ends in a fatal error and writes
\* nothing to the socket
C18_NewIdMustBePlaceholder ==
    [][(/\ Called("send_request")
        /\ Usable(handle, last'.msg.sender_id)
        /\ last'.data # NoData
        /\ CarriesObjectAsNewId(last'.msg))
        => /\ last'.ret.kind = "Panic"
           /\ last'.written = << >>
           /\ handle'.socket = handle.socket]_vars

(***************************************************************************)
(* Child resolution (spec section 4.3, step 4).                            *)
(***************************************************************************)
\* the call returned the id of a new record of the interface and version
\* given, carrying the object data of the call
ChildIs(interface, version) ==
    /\ last'.ret.kind = "Ok"
    /\ ~is_null(last'.ret.id)
    /\ ~MapHas(handle.map, last'.ret.id.id)
    /\ Usable(handle', last'.ret.id)
    /\ last'.ret.id.interface = interface
    /\ handle'.map[last'.ret.id.id].interface = interface
    /\ handle'.map[last'.ret.id.id].version = version
    /\ handle'.map[last'.ret.id.id].data.user_data = last'.data

\* the call was fatal and allocated no record
FatalNoRecord ==
    /\ last'.ret.kind = "Panic"
    /\ handle'.map = handle.map
    /\ last'.written = << >>

\* the call was refused for one of its Object arguments, while the
\* arguments were lowered (mod.rs:704-728), after the child was resolved
ObjectArgumentRefused ==
    \/ last'.ret = InvalidId
    \/ /\ last'.ret.kind = "Panic"
       /\ last'.ret.message \in {"arg_interfaces exhausted",
                                 "Request expects an argument of another interface",
                                 "Request expects an non-null object argument."}

\* C19: the child of a request with a NewId argument sent with a
\* placeholder and an object data: with a pending spec and a declared
\* child interface, the child has that interface and the sender's version
\* when the spec names them and the call is fatal otherwise; with a spec
\* and no declared child interface the child has the interface and version
\* of the spec; with no spec it has the declared child interface and the
\* sender's version; with neither the call is fatal and allocates no record
C19_ChildResolution ==
    [][(/\ Called("send_request")
        /\ ResolvesChild(handle, last'.msg)
        /\ last'.data # NoData
        /\ ~CarriesObjectAsNewId(last'.msg)
        /\ ~ObjectArgumentRefused)
        => LET spec == handle.pending_placeholder
               declared == RequestDesc(last'.msg).child_interface
               version == handle.map[last'.msg.sender_id.id].version
           IN  /\ (spec # NoPlaceholder /\ declared # NoInterface)
                  => IF spec.interface = declared /\ spec.version = version
                     THEN ChildIs(declared, version)
                     ELSE FatalNoRecord
               /\ (spec # NoPlaceholder /\ declared = NoInterface)
                  => ChildIs(spec.interface, spec.version)
               /\ (spec = NoPlaceholder /\ declared # NoInterface)
                  => ChildIs(declared, version)
               /\ (spec = NoPlaceholder /\ declared = NoInterface)
                  => FatalNoRecord]_vars

\* a generic constructor sent with a stashed spec has created a child of
\* the interface and version of the spec, not of the sender's version
C19_Witness ==
    /\ last.op = "send_request"
    /\ last.ret.kind = "Ok"
    /\ RequestDesc(last.msg).child_interface = NoInterface
    /\ HasNewId(RequestDesc(last.msg).signature)
    /\ Usable(handle, last.ret.id)
    /\ handle.map[last.ret.id.id].interface = "test_global"
    /\ handle.map[last.ret.id.id].version = MaxVersion
    /\ handle.map[last.msg.sender_id.id].version = 1
    /\ handle.pending_placeholder = NoPlaceholder

(***************************************************************************)
(* The first error (spec section 4.8).                                     *)
(***************************************************************************)
\* C20: once the latch is set no operation replaces the error it holds
C20_FirstErrorKept ==
    [][Latched => handle'.last_error = handle.last_error]_vars

(***************************************************************************)
(* Transient IO errors (spec section 4.8).                                 *)
(***************************************************************************)
\* the step is an operation that meets WouldBlock on the socket: a flush
\* past the latch, a dispatch loop with nothing more to read, or a
\* send_request that reaches its write
MeetsWouldBlock ==
    \/ Called("flush") /\ last'.fl = "WouldBlock" /\ ~Latched
    \/ WouldBlockStep
    \/ FailedWriteStep /\ last'.wr = "WouldBlock"

\* C21: an operation that meets an IO error of kind WouldBlock leaves the
\* latch with the value it had before
C21_WouldBlockNotLatched ==
    [][MeetsWouldBlock => handle'.last_error = handle.last_error]_vars

(***************************************************************************)
(* Removal of records (spec sections 3, 4.4 and 4.7).                      *)
(***************************************************************************)
\* the step takes the record of the slot k out of the map
Removes(k) ==
    /\ MapHas(handle.map, k)
    /\ \/ ~MapHas(handle'.map, k)
       \/ handle'.map[k].data.serial # handle.map[k].data.serial

\* the record of the slot k as it stands when the step removes it: the
\* delete-id handler sets server_destroyed on the record before it removes
\* it (mod.rs:842-849); the eviction removes the record as it finds it
\* (mod.rs:317-322)
AtRemoval(k) ==
    IF DisplayEventStep(1) /\ last'.message.args[1].v = k
    THEN [handle.map[k] EXCEPT !.data.server_destroyed = TRUE]
    ELSE handle.map[k]

\* C22 as stated: a record leaves the map, by delete-id or by eviction,
\* only when it has both client_destroyed and server_destroyed
C22_Original ==
    [][\A k \in AllIds :
         Removes(k) => /\ AtRemoval(k).data.client_destroyed
                       /\ AtRemoval(k).data.server_destroyed]_vars

\* C22 amended: a record leaves the map in a delete-id for its id, with
\* both flags set, or in the eviction before a server-announced NewId for
\* its id, which takes a client_destroyed record of the server range
\* whatever its server_destroyed flag; no other step removes a record
C22_RemovalFlags ==
    [][\A k \in AllIds :
         Removes(k)
         => \/ /\ DisplayEventStep(1) /\ last'.message.args[1].v = k
               /\ AtRemoval(k).data.client_destroyed
               /\ AtRemoval(k).data.server_destroyed
               /\ ~MapHas(handle'.map, k)
            \/ /\ NewIdStep(k)
               /\ k >= SERVER_ID_LIMIT
               /\ AtRemoval(k).data.client_destroyed
               /\ last'.removed = {[id |-> k, record |-> handle.map[k]]}
               /\ MapHas(handle'.map, k)]_vars

\* a server-announced NewId has evicted a record that the client had
\* destroyed and the server had not
C22_Witness ==
    /\ last.op = "dispatch_events"
    /\ \E k \in ServerIds :
         /\ last.message.args = <<WireNewId(k)>>
         /\ \E r \in last.removed :
              /\ r.id = k
              /\ r.record.data.client_destroyed
              /\ ~r.record.data.server_destroyed
         /\ MapHas(handle.map, k)

(***************************************************************************)
(* Recycling of client ids (spec sections 4.7 and 7).                      *)
(***************************************************************************)
\* the step is the delete-id event for the slot k
DeleteIdStep(k) == DisplayEventStep(1) /\ last'.message.args[1].v = k

\* the slots that hold a record after the step and held none, or a record
\* of another serial, before it
NewSlots ==
    {k \in DOMAIN handle'.map :
        ~MapHas(handle.map, k) \/ handle.map[k].data.serial # handle'.map[k].data.serial}

\* C23: a record of the client range leaves the map only in a delete-id
\* for its id that finds it client_destroyed; send_request, called directly
\* or from inside an event callback, gives a child an id that no record
\* held and takes no record out of the map; a delete-id for a record that
\* is not client_destroyed sets server_destroyed and leaves the record in
\* the map, usable
C23_RecycledByDeleteId ==
    [][/\ \A k \in ClientIds :
            Removes(k) => /\ DeleteIdStep(k)
                          /\ handle.map[k].data.client_destroyed
                          /\ ~MapHas(handle'.map, k)
       /\ Called("send_request")
            => /\ \A k \in AllIds : ~Removes(k)
               /\ NewSlots \subseteq ClientIds \ DOMAIN handle.map
               /\ (last'.ret.kind = "Ok" /\ ~is_null(last'.ret.id))
                  => NewSlots = {last'.ret.id.id}
       /\ (TurnStep /\ last'.cb.calls # << >>)
            => NewSlots \cap ClientIds \subseteq ClientIds \ DOMAIN handle.map
       /\ \A k \in AllIds :
            (DeleteIdStep(k) /\ MapHas(handle.map, k)
                /\ ~handle.map[k].data.client_destroyed)
            => LET oid == ObjectId(k, handle.map[k].data.serial, handle.map[k].interface)
               IN  /\ handle'.map = [handle.map EXCEPT ![k].data.server_destroyed = TRUE]
                   /\ Usable(handle', oid)
                   /\ info(handle', oid).kind = "Ok"
                   /\ last'.removed = {}]_vars

\* send_request has given a child the client id of a record that a
\* delete-id had removed
C23_Witness ==
    /\ last.op = "send_request"
    /\ last.ret.kind = "Ok"
    /\ ~is_null(last.ret.id)
    /\ last.ret.id.id \in ClientIds
    /\ retired[last.ret.id.id] # null_id
    /\ retired[last.ret.id.id].serial # last.ret.id.serial
    /\ Usable(handle, last.ret.id)

(***************************************************************************)
(* Events naming unknown objects (spec sections 4.4 and 7).                *)
(***************************************************************************)
\* the positions of the Object arguments of a wire message whose id is not
\* 0 and not in the map
UnknownObjects(h, message) ==
    {i \in 1..Len(message.args) :
        /\ message.args[i].type = "Object"
        /\ message.args[i].v # 0
        /\ ~MapHas(h.map, message.args[i].v)}

\* the protocol error of mod.rs:279-285 for the id o
UnknownObjectError(o) == ProtocolError(0, 0, "", <<"Unknown object ", o, ".">>)

\* the turn latched err and returned it, invoked no callback and ended the
\* call, and a flush that follows returns err
EndsWith(err) ==
    /\ handle'.last_error = err
    /\ last'.ret = Err(err)
    /\ last'.flow = "Error" /\ last'.returned
    /\ last'.events = << >> /\ last'.destroyed = << >>
    /\ disp'.owner = 0
    /\ \A fl \in {"Ok", "WouldBlock", "BrokenPipe"} :
         flush(handle', fl) = [h |-> handle', ret |-> Err(err)]

\* C24 as stated: an event with an Object argument that names no record
\* ends the call with the protocol error "Unknown object <id>."
C24_Original ==
    [][\A i \in 1..3 :
         (TurnStep /\ i \in UnknownObjects(handle, last'.message)
             /\ \A j \in UnknownObjects(handle, last'.message) : i <= j)
         => EndsWith(UnknownObjectError(last'.message.args[i].v))]_vars

\* C24 amended: an event addressed to an object other than the display,
\* whose first failing argument is an Object argument that names no
\* record, ends the call with the protocol error "Unknown object <id>.":
\* the error is latched and returned, no callback is invoked, no further
\* message is dispatched, and a flush that follows returns the same error;
\* the error event of the display naming an object that is not in the map
\* ends the call in the same way with the error the server sent, of
\* interface name "<unknown>"
C24_UnknownObject ==
    [][\A i \in 1..3 :
         (TurnStep /\ i \in UnknownObjects(handle, last'.message)
             /\ \A j \in UnknownObjects(handle, last'.message) : i <= j)
         => IF last'.message.sender_id = 1
            THEN /\ EndsWith(DisplayError(handle, last'.message))
                 /\ handle'.last_error.object_interface = "<unknown>"
                 /\ handle'.last_error.object_id = last'.message.args[i].v
            ELSE ArgsResolve(handle, EventDesc(handle, last'.message),
                             SubSeq(last'.message.args, 1, i - 1))
                 => EndsWith(UnknownObjectError(last'.message.args[i].v))]_vars

\* an event to a live object has ended the call with the error of an
\* unknown object, and its callback was not invoked
C24_Witness ==
    /\ last.op = "dispatch_events"
    /\ last.message.sender_id > 1
    /\ ~handle.map[last.message.sender_id].data.client_destroyed
    /\ handle.map[last.message.sender_id].data.user_data \in UserData
    /\ \E i \in 1..Len(last.message.args) :
         /\ last.message.args[i].type = "Object"
         /\ handle.last_error = UnknownObjectError(last.message.args[i].v)
    /\ last.ret = Err(handle.last_error)
    /\ last.events = << >>
    /\ disp.owner = 0

(***************************************************************************)
(* Orphan chains (spec section 4.4, step 6).                               *)
(***************************************************************************)
\* the record of the slot k is an orphan: a child announced to a
\* client_destroyed parent, which no callback has given an object data
Orphan(h, k) ==
    /\ MapHas(h.map, k)
    /\ h.map[k].data.client_destroyed
    /\ h.map[k].data.user_data = UninitObjectData

\* the turn invoked no capability and was no fatal error
NothingInvoked ==
    /\ last'.events = << >>
    /\ last'.destroyed = << >>
    /\ last'.written = << >>
    /\ last'.cb = NoCallback
    /\ ~panicked'

\* the child announced for the slot k to a client_destroyed sender is
\* inserted as an orphan
InsertedAsOrphan(k) ==
    (NewIdStep(k) /\ ToDestroyed /\ last'.flow # "Error")
    => /\ Orphan(handle', k)
       /\ handle'.map[k].data.serial = WrappingAdd1(handle.last_serial)
       /\ last'.flow = "Continue"

\* a record that stays in the map keeps client_destroyed; the announcement
\* of a new object at k evicts the record (mod.rs:317-322), and after a wrap
\* of the counter the new record may carry the serial of the old one
StaysDestroyed(k) ==
    (MapHas(handle.map, k) /\ handle.map[k].data.client_destroyed
        /\ ~NewIdStep(k)
        /\ MapHas(handle'.map, k)
        /\ handle'.map[k].data.serial = handle.map[k].data.serial)
    => handle'.map[k].data.client_destroyed

\* C25 as stated: a child announced to a client_destroyed sender is an
\* orphan, and every event addressed to an orphan is swallowed with no
\* capability invoked
C25_Original ==
    [][/\ \A k \in AllIds : InsertedAsOrphan(k) /\ StaysDestroyed(k)
       /\ (TurnStep /\ Orphan(handle, last'.message.sender_id))
            => /\ NothingInvoked
               /\ last'.flow = "Continue"]_vars

\* C25 amended: a child announced in an event to a client_destroyed sender
\* is inserted with client_destroyed set and the Uninitialised capability,
\* and never loses the flag; a turn on an event addressed to an orphan
\* invokes neither event nor destroyed, on no capability, and is no fatal
\* error; the event is swallowed when its arguments resolve against the
\* map, and the children it announces are orphans in turn; when an
\* argument does not resolve the call ends with a latched protocol error
C25_OrphanChains ==
    [][/\ \A k \in AllIds : InsertedAsOrphan(k) /\ StaysDestroyed(k)
       /\ (TurnStep /\ Orphan(handle, last'.message.sender_id))
            => /\ NothingInvoked
               /\ IF ArgsResolve(handle, EventDesc(handle, last'.message),
                                 last'.message.args)
                  THEN last'.flow = "Continue" /\ ~last'.returned
                  ELSE /\ last'.flow = "Error" /\ last'.returned
                       /\ handle'.last_error.kind = "Protocol"
                       /\ last'.ret = Err(handle'.last_error)]_vars

\* an event addressed to an orphan was swallowed, and the child it
\* announced, which took the slot of the orphan, is an orphan again
C25_Witness ==
    /\ last.op = "dispatch_events"
    /\ last.flow = "Continue"
    /\ last.events = << >>
    /\ \E k \in ServerIds :
         /\ last.message.sender_id = k
         /\ last.message.args = <<WireNewId(k)>>
         /\ \E r \in last.removed :
              /\ r.id = k
              /\ r.record.data.client_destroyed
              /\ r.record.data.user_data = UninitObjectData
         /\ Orphan(handle, k)
         /\ handle.map[k].data.serial = handle.last_serial

(***************************************************************************)
(* The Uninitialised capability (spec sections 4.2 and 4.4).               *)
(***************************************************************************)
\* the record of the slot k is live and carries the Uninitialised
\* capability
LiveUninit(h, k) ==
    /\ MapHas(h.map, k)
    /\ ~h.map[k].data.client_destroyed
    /\ h.map[k].data.user_data = UninitObjectData

\* the turn announces the slot k to a sender that is not client_destroyed
AnnouncedToLive(k) == NewIdStep(k) /\ ~ToDestroyed

\* C26: between two messages of the dispatch loop and after a return of
\* dispatch_events, with no fatal error and the latch unset, no record
\* that is not client_destroyed carries the Uninitialised capability; a
\* turn that announces a child to a live sender and is counted leaves the
\* child with the object data the callback returned, and ends in a fatal
\* error when the callback returned none; no turn invokes the event of the
\* Uninitialised capability
C26_NeverUninitialised ==
    /\ []((~panicked /\ ~Latched) => \A k \in AllIds : ~LiveUninit(handle, k))
    /\ [][/\ \A k \in AllIds :
               AnnouncedToLive(k)
               => /\ last'.flow \in {"Dispatched", "Error", "Panic"}
                  /\ last'.flow = "Dispatched"
                     => /\ last'.cb.ret \in UserData
                        /\ handle'.map[k].data.user_data = last'.cb.ret
                        /\ ~LiveUninit(handle', k)
                  /\ (last'.flow # "Error" /\ last'.cb.ret = NoData)
                     => last'.flow = "Panic"
          /\ (TurnStep /\ last'.message.sender_id # 1
                /\ handle.map[last'.message.sender_id].data.user_data = UninitObjectData)
               => last'.events = << >>]_vars

\* the dispatch loop is between two messages and the child it has just
\* announced to a live sender carries the object data the callback returned
C26_Witness ==
    /\ disp.owner # 0
    /\ ~panicked /\ ~Latched
    /\ last.op = "dispatch_events"
    /\ last.flow = "Dispatched"
    /\ \E k \in AllIds :
         /\ last.message.args = <<WireNewId(k)>>
         /\ MapHas(handle.map, k)
         /\ ~handle.map[k].data.client_destroyed
         /\ handle.map[k].data.user_data = "data1"
         /\ last.cb.ret = "data1"

(***************************************************************************)
(* The calls of destroyed over the life of a record (spec section 4.2).    *)
(***************************************************************************)
\* the step is one that can call destroyed: a send_request or a turn of
\* the dispatch loop
CallsCapabilities == last'.op \in {"send_request", "dispatch_events"}

\* C27: a step calls destroyed on a record at most once, and only on a
\* record that was not client_destroyed before the step and is after it;
\* as the flag is never cleared, destroyed is invoked at most once over the
\* life of a record
C27_DestroyedAtMostOnce ==
    [][CallsCapabilities
        => /\ \A i, j \in 1..Len(last'.destroyed) :
                i # j => last'.destroyed[i] # last'.destroyed[j]
           /\ \A i \in 1..Len(last'.destroyed) :
                /\ Usable(handle, last'.destroyed[i])
                /\ AwaitingDeleteId(handle', last'.destroyed[i])]_vars

(***************************************************************************)
(* Generation serials (spec sections 3 and 4.5).                           *)
(***************************************************************************)
\* the ids of the records stamped so far that the state still knows: the
\* records of the map but the display, which connect creates with serial
\* 0, and the record last removed from each slot
StampedIds(h) ==
    ((CurrentIds(h) \cup {retired[k] : k \in AllIds}) \ {null_id, display_id})

\* the run stops before the counter wraps: it makes fewer creations than
\* the counter has values
NoWrapRun == "wrap" \notin scenario /\ "created" \notin scenario

\* an id of a record that has left the map matches the record that holds
\* its slot now
OldIdMatches(h, oid) ==
    oid # null_id /\ oid = retired[oid.id] /\ Known(h, oid)

\* C28: a step creates at most one record and stamps it with the value of
\* the counter right after one wrapping increment; the counter moves by
\* such increments alone; the serial of a slot changes only when a
\* server-announced NewId replaces its record; while the counter has not
\* wrapped the records stamped have pairwise different serials and no old
\* id matches a newer record; after a wrap an old id whose serial equals
\* that of the newer record of its slot is accepted as the id of that
\* record
C28_SerialStamping ==
    /\ [](NoWrapRun =>
            /\ \A a, b \in StampedIds(handle) : a # b => a.serial # b.serial
            /\ \A a \in StampedIds(handle) : 1 <= a.serial /\ a.serial <= handle.last_serial
            /\ \A k \in AllIds : ~OldIdMatches(handle, retired[k]))
    /\ [][/\ handle'.last_serial \in {handle.last_serial, WrappingAdd1(handle.last_serial)}
          /\ \A k \in NewSlots :
               /\ handle'.last_serial = WrappingAdd1(handle.last_serial)
               /\ handle'.map[k].data.serial = handle'.last_serial
               /\ NewSlots = {k}
          /\ \A k \in AllIds :
               (MapHas(handle.map, k) /\ MapHas(handle'.map, k)
                   /\ handle'.map[k].data.serial # handle.map[k].data.serial)
               => NewIdStep(k) /\ k >= SERVER_ID_LIMIT
          /\ (Called("info") /\ OldIdMatches(handle, last'.id)
                /\ ~handle.map[last'.id.id].data.client_destroyed)
               => last'.ret = [kind |-> "Ok",
                               info |-> [id |-> last'.id.id,
                                         interface |-> handle.map[last'.id.id].interface,
                                         version |-> handle.map[last'.id.id].version]]]_vars

\* after a wrap of the counter, info has accepted the id of a record that
\* had left the map as the id of the newer record of its slot
C28_Witness ==
    /\ "wrap" \in scenario
    /\ last.op = "info"
    /\ last.ret.kind = "Ok"
    /\ OldIdMatches(handle, last.id)
    /\ Usable(handle, last.id)

(***************************************************************************)
(* The count of prepared reads (spec section 4.6).                         *)
(***************************************************************************)
\* the threads that hold a guard created by try_new and neither consumed
\* by read() nor dropped
Outstanding == {t \in Threads : threads[t].pc = "prepared"}

\* C29: the count of prepared reads is the number of guards created and
\* neither consumed by read() nor dropped; it is never negative
C29_GuardCount ==
    /\ prepared_reads = Cardinality(Outstanding)
    /\ prepared_reads >= 0

\* a reader that waited inside read() has returned and dropped its guard,
\* the drainer of its round has returned too, and the one guard still
\* outstanding is the one counted
C29_Witness ==
    /\ last.op = "wake"
    /\ threads[last.thread].pc = "idle"
    /\ \E d \in Threads : threads[d].pc = "idle" /\ threads[d].drained
    /\ Cardinality(Outstanding) = 1
    /\ prepared_reads = 1

(***************************************************************************)
(* A refused request leaves no trace (spec section 4.3).                   *)
(***************************************************************************)
\* C30: a send_request that returns invalid-id leaves the Handle as it
\* was (the map, the serial counter, the pending placeholder, the socket)
\* and calls nothing
C30_InvalidIdNoEffect ==
    [][(Called("send_request") /\ last'.ret = InvalidId)
        => /\ handle'.map = handle.map
           /\ handle'.last_serial = handle.last_serial
           /\ handle'.pending_placeholder = handle.pending_placeholder
           /\ handle'.socket = handle.socket
           /\ last'.written = << >>
           /\ last'.destroyed = << >>]_vars

(***************************************************************************)
(* blocking_dispatch and WouldBlock (cx.rs:123-150).                       *)
(***************************************************************************)
\* the last step was a step of blocking_dispatch_impl, made for the call
\* named, and the call has returned with it
ReturnedFrom(call) ==
    /\ last.op \in {"blocking_dispatch_flush", "blocking_dispatch_poll",
                    "blocking_dispatch"}
    /\ last.call = call
    /\ threads[last.thread].call = "none"

WouldBlockError == Err(IoError("WouldBlock"))

\* C32: blocking_dispatch never returns a WouldBlock error to its caller:
\* whatever it returns is Ok, or an error other than WouldBlock
C32_NeverWouldBlock ==
    ReturnedFrom("blocking_dispatch")
        => /\ threads[last.thread].out = last.ret
           /\ last.ret.kind \in {"Ok", "Err"}
           /\ last.ret # WouldBlockError

(***************************************************************************)
(* Termination of roundtrip (cx.rs:92-116).                                *)
(***************************************************************************)
\* the thread t is inside roundtrip, its sync request sent
InRoundtrip(t) == threads[t].call = "roundtrip"

\* a step the scheduler does not owe: a thread starts a call of the
\* Connection or drops a guard, or a poll fails
CallOrFailure ==
    \/ last'.op \in {"prepare_read", "drop", "roundtrip"}
    \/ last'.op = "blocking_dispatch_poll" /\ last'.po # "Ok"
    \/ last'.op = "blocking_dispatch_flush" /\ last'.call = "blocking_dispatch"

\* C31: a roundtrip that has sent its sync request returns in the end,
\* whatever the other threads flush and dispatch on the connection, when
\* the server answers every sync with the done event and the scheduler is
\* fair; stated for the runs in which the threads start finitely many
\* calls and finitely many polls fail
C31_RoundtripReturns ==
    \/ []<><<CallOrFailure>>_vars
    \/ \A t \in Threads : InRoundtrip(t) ~> ~InRoundtrip(t)

====
